---- MODULE Spec2Model ----
(***************************************************************************)
(* Model of jtd-codegen: the JTD (RFC 8927) schema compiler               *)
(* (src/jtd-codegen/src/compiler.rs), its AST (ast.rs) and the JavaScript  *)
(* back-end (emit_js).  compile is a pure function of the schema JSON      *)
(* document; the state machine draws a document from bounded families and  *)
(* applies compile to it.                                                  *)
(***************************************************************************)
EXTENDS Integers, Sequences, FiniteSets, TLC

VARIABLES schema, order, pc, result, code, prev, instance, output,
          target, writer, context

vars == <<schema, order, pc, result, code, prev, instance, output,
          target, writer, context>>

(***************************************************************************)
(* serde_json::Value.  Every variant has its own field names so that two   *)
(* values of different JSON types are simply unequal.                      *)
(***************************************************************************)
JNull == [t |-> "null"]
JBool(b) == [t |-> "bool", b |-> b]
\* A number is hi * 65536 + lo (+ 1/2 when half), with 0 <= lo < 65536, so
\* that the whole 32-bit ranges fit the checker's integers.
JNumber(hi, lo, half) == [t |-> "num", hi |-> hi, lo |-> lo, half |-> half]
JNum(n) == JNumber(n \div 65536, n % 65536, FALSE)
JStr(s) == [t |-> "str", s |-> s]
JArr(a) == [t |-> "arr", a |-> a]
JObj(o) == [t |-> "obj", o |-> o]

\* Value::as_object / as_array / as_str / as_bool succeed
IsObj(v) == v.t = "obj"
IsArr(v) == v.t = "arr"
IsStr(v) == v.t = "str"
IsBool(v) == v.t = "bool"

\* serde_json::Map::contains_key
Has(obj, k) == k \in DOMAIN obj

\* the empty map
EmptyMap == <<>>

\* BTreeMap::insert / Map::insert: the new entry replaces an old one
Insert(m, k, v) == (k :> v) @@ m

(***************************************************************************)
(* Iteration order of the AST's BTreeMap<String, Node>: the byte order of  *)
(* the keys.  KeyOrder lists every user-chosen key of the bounded universe *)
(* in that order.  serde_json::Map iterates in the same order when it is a *)
(* BTreeMap and in the order the document wrote its keys when built with   *)
(* preserve_order; the variable order holds the order of the run.          *)
(***************************************************************************)
KeyOrder ==
    <<"a", "a/b", "age", "b", "constructor", "m", "m_n", "m~n", "n", "name", "p", "q", "x",
      "y", "zz">>

Rank(k) == CHOOSE i \in 1..Len(KeyOrder) : KeyOrder[i] = k

\* iteration of a serde_json::Map with the key set S
MapKeys(S) == SelectSeq(order, LAMBDA k : k \in S)

\* a BTreeMap that iterated in the order the document wrote its keys
DocumentOrderKeys(S) == SelectSeq(order, LAMBDA k : k \in S)

\* iteration of a BTreeMap with the key set S
SortedKeys(S) == SelectSeq(KeyOrder, LAMBDA k : k \in S)

(***************************************************************************)
(* ast.rs: TypeKeyword and Node                                            *)
(***************************************************************************)
TypeKeywords ==
    {"boolean", "string", "timestamp", "int8", "uint8", "int16", "uint16",
     "int32", "uint32", "float32", "float64"}

Empty == [kind |-> "Empty"]
Ref(name) == [kind |-> "Ref", name |-> name]
Type(kw) == [kind |-> "Type", type_kw |-> kw]
Enum(values) == [kind |-> "Enum", values |-> values]
Elements(inner) == [kind |-> "Elements", schema |-> inner]
Values(inner) == [kind |-> "Values", schema |-> inner]
Properties(req, opt, add) ==
    [kind |-> "Properties", required |-> req, optional |-> opt, additional |-> add]
Discriminator(tag, mapping) ==
    [kind |-> "Discriminator", tag |-> tag, mapping |-> mapping]
Nullable(inner) == [kind |-> "Nullable", inner |-> inner]

(***************************************************************************)
(* compiler.rs: CompileError and Result                                    *)
(***************************************************************************)
NotAnObject == [e |-> "NotAnObject"]
DefinitionsNotObject == [e |-> "DefinitionsNotObject"]
DefinitionsInNonRoot == [e |-> "DefinitionsInNonRoot"]
MultipleForms(forms) == [e |-> "MultipleForms", forms |-> forms]
RefNotString == [e |-> "RefNotString"]
RefNotFound(name) == [e |-> "RefNotFound", name |-> name]
TypeNotString == [e |-> "TypeNotString"]
UnknownType(name) == [e |-> "UnknownType", name |-> name]
InvalidEnum == [e |-> "InvalidEnum"]
EnumDuplicates == [e |-> "EnumDuplicates"]
OverlappingProperties(key) == [e |-> "OverlappingProperties", key |-> key]
DiscriminatorNotString == [e |-> "DiscriminatorNotString"]
MissingMapping == [e |-> "MissingMapping"]
MappingNotProperties == [e |-> "MappingNotProperties"]
TagInVariant(tag) == [e |-> "TagInVariant", tag |-> tag]

Ok(n) == [ok |-> TRUE, node |-> n]
Err(e) == [ok |-> FALSE, err |-> e]

\* the form names compile_node pushes, in the order of its if statements
FormOrder == <<"ref", "type", "enum", "elements", "values", "discriminator", "properties">>

\* HasForm that misses optionalProperties as a keyword of the properties form
HasFormKeyOnly(obj, f) == Has(obj, f)

HasForm(obj, f) ==
    IF f = "properties"
    THEN Has(obj, "properties") \/ Has(obj, "optionalProperties")
    ELSE Has(obj, f)

DetectForms(obj) == SelectSeq(FormOrder, LAMBDA f : HasForm(obj, f))

\* compile_ref without the lookup in definitions
compile_ref_unchecked(obj, definitions) ==
    IF ~IsStr(obj["ref"]) THEN Err(RefNotString)
    ELSE Ok(Ref(obj["ref"].s))

compile_ref(obj, definitions) ==
    IF ~IsStr(obj["ref"]) THEN Err(RefNotString)
    ELSE IF ~Has(definitions, obj["ref"].s) THEN Err(RefNotFound(obj["ref"].s))
    ELSE Ok(Ref(obj["ref"].s))

compile_type(obj) ==
    IF ~IsStr(obj["type"]) THEN Err(TypeNotString)
    ELSE IF obj["type"].s \notin TypeKeywords THEN Err(UnknownType(obj["type"].s))
    ELSE Ok(Type(obj["type"].s))

\* a seen set that never reports a repeat
NeverSeen(values, s) == FALSE

\* !seen.insert(s): s was pushed before
AlreadySeen(values, s) == \E j \in 1..Len(values) : values[j] = s

\* the for loop of compile_enum from element i on; values is the list
\* pushed so far (seen holds the same strings)
RECURSIVE EnumLoop(_, _, _)
EnumLoop(arr, i, values) ==
    IF i > Len(arr) THEN Ok(Enum(values))
    ELSE IF ~IsStr(arr[i]) THEN Err(InvalidEnum)
    ELSE IF AlreadySeen(values, arr[i].s) THEN Err(EnumDuplicates)
    ELSE EnumLoop(arr, i + 1, Append(values, arr[i].s))

compile_enum(obj) ==
    IF ~IsArr(obj["enum"]) THEN Err(InvalidEnum)
    ELSE IF Len(obj["enum"].a) = 0 THEN Err(InvalidEnum)
    ELSE EnumLoop(obj["enum"].a, 1, <<>>)

RECURSIVE compile_node(_, _, _)
RECURSIVE RequiredLoop(_, _, _, _, _)
RECURSIVE OptionalLoop(_, _, _, _, _, _)
RECURSIVE MappingLoop(_, _, _, _, _, _)

compile_elements(obj, definitions) ==
    LET inner == compile_node(obj["elements"], TRUE, definitions)
    IN  IF ~inner.ok THEN inner ELSE Ok(Elements(inner.node))

compile_values(obj, definitions) ==
    LET inner == compile_node(obj["values"], TRUE, definitions)
    IN  IF ~inner.ok THEN inner ELSE Ok(Values(inner.node))

\* the overlap test left out
NoOverlapCheck(required, key) == FALSE

\* required.contains_key(key) in the loop over optionalProperties
Overlaps(required, key) == Has(required, key)

\* CheckVariant that looks for the tag among the required keys only
CheckVariantRequiredOnly(node, tag) ==
    IF node.kind # "Properties" THEN Err(MappingNotProperties)
    ELSE IF Has(node.required, tag) THEN Err(TagInVariant(tag))
    ELSE Ok(node)

\* the match on the compiled mapping entry in compile_discriminator
CheckVariant(node, tag) ==
    IF node.kind # "Properties" THEN Err(MappingNotProperties)
    ELSE IF Has(node.required, tag) \/ Has(node.optional, tag)
    THEN Err(TagInVariant(tag))
    ELSE Ok(node)

\* first for loop of compile_properties, from the i-th key of props_obj on
RequiredLoop(props_obj, keys, i, definitions, required) ==
    IF i > Len(keys) THEN [ok |-> TRUE, map |-> required]
    ELSE LET node == compile_node(props_obj[keys[i]], TRUE, definitions)
         IN  IF ~node.ok THEN node
             ELSE RequiredLoop(props_obj, keys, i + 1, definitions,
                               Insert(required, keys[i], node.node))

\* second for loop of compile_properties
OptionalLoop(opt_obj, keys, i, definitions, required, optional) ==
    IF i > Len(keys) THEN [ok |-> TRUE, map |-> optional]
    ELSE IF Overlaps(required, keys[i]) THEN Err(OverlappingProperties(keys[i]))
    ELSE LET node == compile_node(opt_obj[keys[i]], TRUE, definitions)
         IN  IF ~node.ok THEN node
             ELSE OptionalLoop(opt_obj, keys, i + 1, definitions, required,
                               Insert(optional, keys[i], node.node))

compile_properties(obj, definitions) ==
    LET req == IF ~Has(obj, "properties") THEN [ok |-> TRUE, map |-> EmptyMap]
               ELSE IF ~IsObj(obj["properties"]) THEN Err(NotAnObject)
               ELSE RequiredLoop(obj["properties"].o,
                                 MapKeys(DOMAIN obj["properties"].o), 1,
                                 definitions, EmptyMap)
    IN  IF ~req.ok THEN req
        ELSE LET opt == IF ~Has(obj, "optionalProperties")
                        THEN [ok |-> TRUE, map |-> EmptyMap]
                        ELSE IF ~IsObj(obj["optionalProperties"]) THEN Err(NotAnObject)
                        ELSE OptionalLoop(obj["optionalProperties"].o,
                                          MapKeys(DOMAIN obj["optionalProperties"].o),
                                          1, definitions, req.map, EmptyMap)
             IN  IF ~opt.ok THEN opt
                 ELSE LET additional ==
                              IF Has(obj, "additionalProperties")
                                 /\ IsBool(obj["additionalProperties"])
                              THEN obj["additionalProperties"].b
                              ELSE FALSE
                      IN  Ok(Properties(req.map, opt.map, additional))

\* the for loop of compile_discriminator
MappingLoop(mapping_obj, keys, i, definitions, tag, mapping) ==
    IF i > Len(keys) THEN Ok(Discriminator(tag, mapping))
    ELSE LET node == compile_node(mapping_obj[keys[i]], TRUE, definitions)
         IN  IF ~node.ok THEN node
             ELSE IF ~CheckVariant(node.node, tag).ok THEN CheckVariant(node.node, tag)
             ELSE MappingLoop(mapping_obj, keys, i + 1, definitions, tag,
                              Insert(mapping, keys[i], node.node))

compile_discriminator(obj, definitions) ==
    IF ~IsStr(obj["discriminator"]) THEN Err(DiscriminatorNotString)
    ELSE IF ~Has(obj, "mapping") THEN Err(MissingMapping)
    ELSE IF ~IsObj(obj["mapping"]) THEN Err(MissingMapping)
    ELSE MappingLoop(obj["mapping"].o, MapKeys(DOMAIN obj["mapping"].o), 1,
                     definitions, obj["discriminator"].s, EmptyMap)

\* the match on forms.first() of compile_node
CompileForm(form, obj, definitions) ==
    CASE form = "ref" -> compile_ref(obj, definitions)
      [] form = "type" -> compile_type(obj)
      [] form = "enum" -> compile_enum(obj)
      [] form = "elements" -> compile_elements(obj, definitions)
      [] form = "properties" -> compile_properties(obj, definitions)
      [] form = "values" -> compile_values(obj, definitions)
      [] form = "discriminator" -> compile_discriminator(obj, definitions)

\* the wrapper applied whenever the nullable key is present
ApplyNullableIfPresent(obj, node) ==
    IF Has(obj, "nullable") THEN Nullable(node) ELSE node

\* the nullable modifier of compile_node
ApplyNullable(obj, node) ==
    IF Has(obj, "nullable") /\ obj["nullable"] = JBool(TRUE)
    THEN Nullable(node)
    ELSE node

\* is_sub is ignored by the code (the parameter is named _is_sub)
compile_node(json, is_sub, definitions) ==
    IF ~IsObj(json) THEN Err(NotAnObject)
    ELSE LET obj == json.o
             forms == DetectForms(obj)
         IN  IF Len(forms) > 1 THEN Err(MultipleForms(forms))
             ELSE LET node == IF Len(forms) = 0 THEN Ok(Empty)
                              ELSE CompileForm(forms[1], obj, definitions)
                  IN  IF ~node.ok THEN node
                      ELSE Ok(ApplyNullable(obj, node.node))

\* pass 1 left out: a definition is known only once its body is compiled
NoPlaceholders(defs_obj) == EmptyMap

\* pass 1 of compile: every definition key registered with a placeholder
Placeholders(defs_obj) == [k \in DOMAIN defs_obj |-> Empty]

\* pass 2 of compile, from the i-th definition key on
RECURSIVE DefinitionsLoop(_, _, _, _)
DefinitionsLoop(defs_obj, def_keys, i, definitions) ==
    IF i > Len(def_keys) THEN [ok |-> TRUE, map |-> definitions]
    ELSE LET node == compile_node(defs_obj[def_keys[i]], FALSE, definitions)
         IN  IF ~node.ok THEN node
             ELSE DefinitionsLoop(defs_obj, def_keys, i + 1,
                                  Insert(definitions, def_keys[i], node.node))

\* a compile that took the root body before the definitions
compile_root_first(json) ==
    IF ~IsObj(json) THEN Err(NotAnObject)
    ELSE IF Has(json.o, "definitions") /\ ~IsObj(json.o["definitions"])
    THEN Err(DefinitionsNotObject)
    ELSE LET defs_obj == IF Has(json.o, "definitions")
                         THEN json.o["definitions"].o ELSE EmptyMap
             root == compile_node(json, FALSE, Placeholders(defs_obj))
         IN  IF ~root.ok THEN root
             ELSE LET defs == DefinitionsLoop(defs_obj, MapKeys(DOMAIN defs_obj), 1,
                                              Placeholders(defs_obj))
                  IN  IF ~defs.ok THEN defs
                      ELSE [ok |-> TRUE, root |-> root.node,
                            definitions |-> defs.map]

compile(json) ==
    IF ~IsObj(json) THEN Err(NotAnObject)
    ELSE IF Has(json.o, "definitions") /\ ~IsObj(json.o["definitions"])
    THEN Err(DefinitionsNotObject)
    ELSE LET defs_obj == IF Has(json.o, "definitions")
                         THEN json.o["definitions"].o ELSE EmptyMap
             defs == DefinitionsLoop(defs_obj, MapKeys(DOMAIN defs_obj), 1,
                                     Placeholders(defs_obj))
         IN  IF ~defs.ok THEN defs
             ELSE LET root == compile_node(json, FALSE, defs.map)
                  IN  IF ~root.ok THEN root
                      ELSE [ok |-> TRUE, root |-> root.node, definitions |-> defs.map]

(***************************************************************************)
(* emit_js/writer.rs.  A written line is kept with the indentation depth   *)
(* it was written at; its text is kept as the JavaScript fragment it       *)
(* spells (a record), so that the emitted module can be run.               *)
(***************************************************************************)
\* the characters of the user strings of the bounded universe
Chars ==
    [k \in {"a", "b", "m", "n", "p", "q"} |-> <<k>>]
    @@ ("a/b" :> <<"a", "/", "b">>) @@ ("m~n" :> <<"m", "~", "n">>)
    @@ ("m_n" :> <<"m", "_", "n">>)
    @@ ("age" :> <<"a", "g", "e">>) @@ ("name" :> <<"n", "a", "m", "e">>)
    @@ ("" :> <<>>)
    @@ ("zz" :> <<"z", "z">>)
    @@ ("constructor" :> <<"c", "o", "n", "s", "t", "r", "u", "c", "t", "o", "r">>)
    @@ ("x" :> <<"x">>) @@ ("y" :> <<"y">>)
    @@ ("a\"b" :> <<"a", "\"", "b">>) @@ ("p\\q" :> <<"p", "\\", "q">>)
    @@ ("x\ny" :> <<"x", "\n", "y">>)

RECURSIVE Join(_)
Join(cs) == IF cs = <<>> THEN "" ELSE Head(cs) \o Join(Tail(cs))

\* the match of escape_js on one character
EscapeChar(c) ==
    CASE c = "\\" -> "\\\\"
      [] c = "\"" -> "\\\""
      [] c = "\n" -> "\\n"
      [] c = "\r" -> "\\r"
      [] OTHER -> c

escape_js(s) == Join([i \in 1..Len(Chars[s]) |-> EscapeChar(Chars[s][i])])

NewWriter == [buf |-> <<>>, depth |-> 0]

\* a decrement without the clamp
WrappingDec(d) == d - 1

\* usize::saturating_sub(1)
SaturatingDec(d) == IF d = 0 THEN 0 ELSE d - 1

line(w, text) ==
    [buf |-> Append(w.buf, [kind |-> "line", indent |-> w.depth, text |-> text]),
     depth |-> w.depth]

open(w, text) ==
    [buf |-> Append(w.buf, [kind |-> "open", indent |-> w.depth, text |-> text]),
     depth |-> w.depth + 1]

close(w) ==
    [buf |-> Append(w.buf, [kind |-> "close", indent |-> SaturatingDec(w.depth),
                            text |-> [s |-> "}"]]),
     depth |-> SaturatingDec(w.depth)]

\* a continuation that did not open the next block
close_open_dedent(w, text) ==
    [buf |-> Append(w.buf, [kind |-> "close_open", indent |-> SaturatingDec(w.depth),
                            text |-> text]),
     depth |-> SaturatingDec(w.depth)]

close_open(w, text) ==
    [buf |-> Append(w.buf, [kind |-> "close_open", indent |-> SaturatingDec(w.depth),
                            text |-> text]),
     depth |-> SaturatingDec(w.depth) + 1]

finish(w) == w.buf

(***************************************************************************)
(* emit_lua/writer.rs and emit_py/writer.rs.  The Lua writer closes a      *)
(* block with a line of its own text (end); the Python writer ends a block *)
(* by dedent, which writes nothing.  indent counts the indent units that   *)
(* write_indent puts before the text.                                      *)
(***************************************************************************)
\* the string write_indent repeats: two spaces for JS and Lua, four for
\* Python
IndentUnit(t) == IF t = "py" THEN "    " ELSE "  "

lua_line(w, text) ==
    [buf |-> Append(w.buf, [kind |-> "line", indent |-> w.depth, text |-> text]),
     depth |-> w.depth]

lua_open(w, text) ==
    [buf |-> Append(w.buf, [kind |-> "open", indent |-> w.depth, text |-> text]),
     depth |-> w.depth + 1]

lua_close(w, text) ==
    [buf |-> Append(w.buf, [kind |-> "close", indent |-> SaturatingDec(w.depth),
                            text |-> text]),
     depth |-> SaturatingDec(w.depth)]

lua_close_open(w, text) ==
    [buf |-> Append(w.buf, [kind |-> "close_open", indent |-> SaturatingDec(w.depth),
                            text |-> text]),
     depth |-> SaturatingDec(w.depth) + 1]

py_line(w, text) ==
    [buf |-> Append(w.buf, [kind |-> "line", indent |-> w.depth, text |-> text]),
     depth |-> w.depth]

py_open(w, text) ==
    [buf |-> Append(w.buf, [kind |-> "open", indent |-> w.depth, text |-> text]),
     depth |-> w.depth + 1]

py_dedent(w) == [buf |-> w.buf, depth |-> SaturatingDec(w.depth)]

py_close_open(w, text) ==
    [buf |-> Append(w.buf, [kind |-> "close_open", indent |-> SaturatingDec(w.depth),
                            text |-> text]),
     depth |-> SaturatingDec(w.depth) + 1]

(***************************************************************************)
(* emit_js/context.rs.  val is a variable followed by property accesses;   *)
(* ip and sp are string concatenations.  A part of either is a string      *)
(* literal or a variable (var).  The text between the quotes of a literal  *)
(* is kept in two pieces: pre, the text the emitter itself supplies, and   *)
(* body, the text that came from a schema key (raw or escaped).            *)
(***************************************************************************)
Lit(pre, body) == [pre |-> pre, body |-> body]
NoSuffix == Lit("", "")
Var(name) == [var |-> name]

RootContext ==
    [val |-> <<Var("instance")>>, err |-> "e", ip |-> <<Lit("", "")>>, sp |-> <<Lit("", "")>>,
     depth |-> 0]

DefinitionContext ==
    [val |-> <<Var("v")>>, err |-> "e", ip |-> <<Var("p")>>, sp |-> <<Var("sp")>>,
     depth |-> 0]

idx_var(ctx) == IF ctx.depth = 0 THEN "i" ELSE "i" \o ToString(ctx.depth)

key_var(ctx) == IF ctx.depth = 0 THEN "k" ELSE "k" \o ToString(ctx.depth)

required_prop(ctx, key) ==
    [val |-> Append(ctx.val, Lit("", key)),
     err |-> ctx.err,
     ip |-> Append(ctx.ip, Lit("/", key)),
     sp |-> Append(ctx.sp, Lit("/properties/", key)),
     depth |-> ctx.depth]

optional_prop(ctx, key) ==
    [val |-> Append(ctx.val, Lit("", key)),
     err |-> ctx.err,
     ip |-> Append(ctx.ip, Lit("/", key)),
     sp |-> Append(ctx.sp, Lit("/optionalProperties/", key)),
     depth |-> ctx.depth]

\* an element descent that kept the depth
element_flat(ctx, idx) ==
    [val |-> Append(ctx.val, Var(idx)),
     err |-> ctx.err,
     ip |-> ctx.ip \o <<Lit("/", ""), Var(idx)>>,
     sp |-> Append(ctx.sp, Lit("/elements", "")),
     depth |-> ctx.depth]

element(ctx, idx) ==
    [val |-> Append(ctx.val, Var(idx)),
     err |-> ctx.err,
     ip |-> ctx.ip \o <<Lit("/", ""), Var(idx)>>,
     sp |-> Append(ctx.sp, Lit("/elements", "")),
     depth |-> ctx.depth + 1]

values_entry(ctx, key) ==
    [val |-> Append(ctx.val, Var(key)),
     err |-> ctx.err,
     ip |-> ctx.ip \o <<Lit("/", ""), Var(key)>>,
     sp |-> Append(ctx.sp, Lit("/values", "")),
     depth |-> ctx.depth + 1]

discrim_variant(ctx, variant_key) ==
    [val |-> ctx.val,
     err |-> ctx.err,
     ip |-> ctx.ip,
     sp |-> Append(ctx.sp, Lit("/mapping/", variant_key)),
     depth |-> ctx.depth]

\* the statement err.push({instancePath: ip, schemaPath: sp});
Push(err, ip, sp) == [s |-> "push", err |-> err, ip |-> ip, sp |-> sp]

push_error(ctx, sp_suffix) ==
    Push(ctx.err, ctx.ip,
         IF sp_suffix = NoSuffix THEN ctx.sp ELSE Append(ctx.sp, sp_suffix))

push_error_at(ctx, ip_suffix, sp_suffix) ==
    Push(ctx.err,
         IF ip_suffix = NoSuffix THEN ctx.ip ELSE Append(ctx.ip, ip_suffix),
         IF sp_suffix = NoSuffix THEN ctx.sp ELSE Append(ctx.sp, sp_suffix))

(***************************************************************************)
(* emit_lua/writer.rs (escape_lua) and emit_lua/context.rs.  The Lua       *)
(* context has the fields of the JS one; its concatenation operator is ..  *)
(* and an element's path is the loop index minus one.                      *)
(***************************************************************************)
\* the match of escape_lua on one character
EscapeCharLua(c) ==
    CASE c = "\\" -> "\\\\"
      [] c = "\"" -> "\\\""
      [] c = "\n" -> "\\n"
      [] c = "\r" -> "\\r"
      [] c = "\t" -> "\\t"
      [] OTHER -> c

escape_lua(s) == Join([i \in 1..Len(Chars[s]) |-> EscapeCharLua(Chars[s][i])])

\* the Lua expression (idx - 1)
MinusOne(idx) == [var |-> idx, minus |-> 1]

lua_required_prop(ctx, key) ==
    [val |-> Append(ctx.val, Lit("", escape_lua(key))),
     err |-> ctx.err,
     ip |-> Append(ctx.ip, Lit("/", escape_lua(key))),
     sp |-> Append(ctx.sp, Lit("/properties/", escape_lua(key))),
     depth |-> ctx.depth]

lua_optional_prop(ctx, key) ==
    [val |-> Append(ctx.val, Lit("", escape_lua(key))),
     err |-> ctx.err,
     ip |-> Append(ctx.ip, Lit("/", escape_lua(key))),
     sp |-> Append(ctx.sp, Lit("/optionalProperties/", escape_lua(key))),
     depth |-> ctx.depth]

lua_element(ctx, idx) ==
    [val |-> Append(ctx.val, Var(idx)),
     err |-> ctx.err,
     ip |-> ctx.ip \o <<Lit("/", ""), MinusOne(idx)>>,
     sp |-> Append(ctx.sp, Lit("/elements", "")),
     depth |-> ctx.depth + 1]

lua_values_entry(ctx, key) ==
    [val |-> Append(ctx.val, Var(key)),
     err |-> ctx.err,
     ip |-> ctx.ip \o <<Lit("/", ""), Var(key)>>,
     sp |-> Append(ctx.sp, Lit("/values", "")),
     depth |-> ctx.depth + 1]

lua_discrim_variant(ctx, variant_key) ==
    [val |-> ctx.val,
     err |-> ctx.err,
     ip |-> ctx.ip,
     sp |-> Append(ctx.sp, Lit("/mapping/", escape_lua(variant_key))),
     depth |-> ctx.depth]

(***************************************************************************)
(* emit_js/types.rs: the condition that is true when val FAILS the type    *)
(***************************************************************************)
\* typeof val !== "number" || !Number.isInteger(val) || val < min || val > max
int_cond(val, min, max) == [c |-> "int", val |-> val, min |-> min, max |-> max]

\* an i64 literal hi * 65536 + lo
I64(hi, lo) == [hi |-> hi, lo |-> lo]
Small(n) == I64(n \div 65536, n % 65536)

type_condition(type_kw, val) ==
    CASE type_kw = "boolean" -> [c |-> "typeof_ne", ty |-> "boolean", val |-> val]
      [] type_kw = "string" -> [c |-> "typeof_ne", ty |-> "string", val |-> val]
      [] type_kw = "timestamp" -> [c |-> "not_timestamp", val |-> val]
      [] type_kw \in {"float32", "float64"} -> [c |-> "not_finite", val |-> val]
      [] type_kw = "int8" -> int_cond(val, Small(-128), Small(127))
      [] type_kw = "uint8" -> int_cond(val, Small(0), Small(255))
      [] type_kw = "int16" -> int_cond(val, Small(-32768), Small(32767))
      [] type_kw = "uint16" -> int_cond(val, Small(0), Small(65535))
      [] type_kw = "int32" -> int_cond(val, I64(-32768, 0), I64(32767, 65535))
      [] type_kw = "uint32" -> int_cond(val, Small(0), I64(65535, 65535))

(***************************************************************************)
(* emit_rs/types.rs: the Rust condition on a &serde_json::Value.           *)
(*   !val.as_f64().map_or(false, |n| p1(n) && p2(n) && ...)                *)
(***************************************************************************)
NotMapOr(val, conj) == [c |-> "not_map_or", val |-> val, conj |-> conj]

rs_int_cond_no_fract(val, min, max) ==
    NotMapOr(val, <<[p |-> "ge", k |-> min], [p |-> "le", k |-> max]>>)

\* n.fract() == 0.0 && n >= {min}_f64 && n <= {max}_f64
rs_int_cond(val, min, max) ==
    NotMapOr(val, <<[p |-> "fract_zero"], [p |-> "ge", k |-> min],
                    [p |-> "le", k |-> max]>>)

rs_type_condition(type_kw, val) ==
    CASE type_kw = "boolean" -> [c |-> "not_is", ty |-> "bool", val |-> val]
      [] type_kw = "string" -> [c |-> "not_is", ty |-> "str", val |-> val]
      [] type_kw = "timestamp" -> [c |-> "not_is_rfc3339", val |-> val]
      [] type_kw \in {"float32", "float64"} -> NotMapOr(val, <<[p |-> "is_finite"]>>)
      [] type_kw = "int8" -> rs_int_cond(val, Small(-128), Small(127))
      [] type_kw = "uint8" -> rs_int_cond(val, Small(0), Small(255))
      [] type_kw = "int16" -> rs_int_cond(val, Small(-32768), Small(32767))
      [] type_kw = "uint16" -> rs_int_cond(val, Small(0), Small(65535))
      [] type_kw = "int32" -> rs_int_cond(val, I64(-32768, 0), I64(32767, 65535))
      [] type_kw = "uint32" -> rs_int_cond(val, Small(0), I64(65535, 65535))

\* val === null || typeof val !== "object" || Array.isArray(val)
NotObject(val) == [c |-> "not_object", val |-> val]

\* if (cond) stmt  on one line
IfLine(cond, stmt) == [s |-> "if", cond |-> cond, then |-> stmt]

\* the head  if (cond)  of a block
IfHead(cond) == [h |-> "if", cond |-> cond]
ElseIfHead(cond) == [h |-> "else if", cond |-> cond]
ElseHead == [h |-> "else"]

(***************************************************************************)
(* emit_js/nodes.rs and emit_js/emit.rs.  Every emit function is the       *)
(* sequence of calls it makes on the writer w, in order; emit applies      *)
(* them to a new CodeWriter.                                               *)
(***************************************************************************)
WLine(text) == [op |-> "line", text |-> text]
WOpen(text) == [op |-> "open", text |-> text]
WClose == [op |-> "close"]
WCloseOpen(text) == [op |-> "close_open", text |-> text]

emit_empty(ctx) == <<>>

emit_type(ctx, type_kw) ==
    <<WLine(IfLine(type_condition(type_kw, ctx.val), push_error(ctx, Lit("/type", ""))))>>

emit_enum(ctx, values) ==
    <<WLine(IfLine([c |-> "not_in_enum", val |-> ctx.val,
                    items |-> [i \in 1..Len(values) |-> escape_js(values[i])]],
                   push_error(ctx, Lit("/enum", ""))))>>

IsAlphanumeric(c) ==
    c \in {"a", "b", "c", "d", "e", "f", "g", "h", "i", "j", "k", "l", "m", "n", "o",
           "p", "q", "r", "s", "t", "u", "v", "w", "x", "y", "z", "A", "B", "C", "D",
           "E", "F", "G", "H", "I", "J", "K", "L", "M", "N", "O", "P", "Q", "R", "S",
           "T", "U", "V", "W", "X", "Y", "Z", "0", "1", "2", "3", "4", "5", "6", "7",
           "8", "9"}

def_fn_name(name) ==
    "validate_" \o Join([i \in 1..Len(Chars[name]) |->
                            IF IsAlphanumeric(Chars[name][i]) \/ Chars[name][i] = "_"
                            THEN Chars[name][i] ELSE "_"])

\* a callee path that continued the caller's path
emit_ref_relative(ctx, def_name) ==
    <<WLine([s |-> "call", fn |-> def_fn_name(def_name), val |-> ctx.val,
             err |-> ctx.err, ip |-> ctx.ip,
             sp |-> Append(ctx.sp, Lit("/definitions/", escape_js(def_name)))])>>

emit_ref(ctx, def_name) ==
    <<WLine([s |-> "call", fn |-> def_fn_name(def_name), val |-> ctx.val,
             err |-> ctx.err, ip |-> ctx.ip,
             sp |-> <<Lit("/definitions/", escape_js(def_name))>>])>>

RECURSIVE emit_node(_, _, _)
RECURSIVE EmitRequired(_, _, _, _)
RECURSIVE EmitOptional(_, _, _, _)
RECURSIVE EmitVariants(_, _, _, _, _)

\* a tag a that stays in force below the variant
TagInForce == [some |-> TRUE, tag |-> "a"]

\* Option<&str> for discrim_tag
None == [some |-> FALSE]
Some(tag) == [some |-> TRUE, tag |-> tag]

\* a nullable that wrapped every inner form, the empty one included
emit_nullable_wrapping(ctx, is_inner_empty, inner) ==
    <<WOpen(IfHead([c |-> "not_null", val |-> ctx.val]))>>
    \o emit_node(ctx, inner, None)
    \o <<WClose>>

\* emit_inner is the closure of emit_node: emit_node(ctx, inner, None)
emit_nullable(ctx, is_inner_empty, inner) ==
    IF is_inner_empty THEN <<>>
    ELSE <<WOpen(IfHead([c |-> "not_null", val |-> ctx.val]))>>
         \o emit_node(ctx, inner, None)
         \o <<WClose>>

emit_elements(ctx, inner) ==
    LET idx == idx_var(ctx)
    IN  <<WOpen(IfHead([c |-> "not_array", val |-> ctx.val])),
          WLine(push_error(ctx, Lit("/elements", ""))),
          WCloseOpen(ElseHead),
          WOpen([h |-> "for", var |-> idx, val |-> ctx.val])>>
        \o emit_node(element(ctx, idx), inner, None)
        \o <<WClose, WClose>>

emit_values(ctx, inner) ==
    LET kv == key_var(ctx)
    IN  <<WOpen(IfHead(NotObject(ctx.val))),
          WLine(push_error(ctx, Lit("/values", ""))),
          WCloseOpen(ElseHead),
          WOpen([h |-> "for in", var |-> kv, val |-> ctx.val])>>
        \o emit_node(values_entry(ctx, kv), inner, None)
        \o <<WClose, WClose>>

\* the loop over required of emit_properties_node
EmitRequired(ctx, required, keys, i) ==
    IF i > Len(keys) THEN <<>>
    ELSE LET key == keys[i]
             escaped == escape_js(key)
         IN  <<WLine(IfLine([c |-> "not_has", key |-> escaped, val |-> ctx.val],
                            push_error(ctx, Lit("/properties/", escaped)))),
               WOpen(ElseHead)>>
             \o emit_node(required_prop(ctx, key), required[key], None)
             \o <<WClose>>
             \o EmitRequired(ctx, required, keys, i + 1)

\* the loop over optional of emit_properties_node
EmitOptional(ctx, optional, keys, i) ==
    IF i > Len(keys) THEN <<>>
    ELSE LET key == keys[i]
             escaped == escape_js(key)
         IN  <<WOpen(IfHead([c |-> "has", key |-> escaped, val |-> ctx.val]))>>
             \o emit_node(optional_prop(ctx, key), optional[key], None)
             \o <<WClose>>
             \o EmitOptional(ctx, optional, keys, i + 1)

\* a scan that reported the form keyword as the guard does
EmitAdditionalAtKeyword(ctx, required, optional, discrim_tag) ==
    LET k_var == "k"
        known == (IF discrim_tag.some THEN <<discrim_tag.tag>> ELSE <<>>)
                 \o SortedKeys(DOMAIN required) \o SortedKeys(DOMAIN optional)
        push == Push(ctx.err, ctx.ip \o <<Lit("/", ""), Var(k_var)>>,
                     Append(ctx.sp, IF DOMAIN required # {} THEN Lit("/properties", "")
                                    ELSE Lit("/optionalProperties", "")))
    IN  <<WOpen([h |-> "for in", var |-> k_var, val |-> ctx.val]),
          IF known = <<>> THEN WLine(push)
          ELSE WLine(IfLine([c |-> "none_of", var |-> k_var,
                             keys |-> [i \in 1..Len(known) |-> escape_js(known[i])]],
                            push)),
          WClose>>

\* the additional-properties loop of emit_properties_node
EmitAdditional(ctx, required, optional, discrim_tag) ==
    LET k_var == "k"
        known == (IF discrim_tag.some THEN <<discrim_tag.tag>> ELSE <<>>)
                 \o SortedKeys(DOMAIN required) \o SortedKeys(DOMAIN optional)
        push == Push(ctx.err, ctx.ip \o <<Lit("/", ""), Var(k_var)>>, ctx.sp)
    IN  <<WOpen([h |-> "for in", var |-> k_var, val |-> ctx.val]),
          IF known = <<>> THEN WLine(push)
          ELSE WLine(IfLine([c |-> "none_of", var |-> k_var,
                             keys |-> [i \in 1..Len(known) |-> escape_js(known[i])]],
                            push)),
          WClose>>

\* a guard that always reported the keyword properties
guard_sp_properties(required) == Lit("/properties", "")

\* the schema path suffix of the object guard of emit_properties_node
guard_sp(required) ==
    IF DOMAIN required # {} THEN Lit("/properties", "")
    ELSE Lit("/optionalProperties", "")

emit_properties_node(ctx, required, optional, additional, discrim_tag) ==
        <<WOpen(IfHead(NotObject(ctx.val))),
          WLine(push_error(ctx, guard_sp(required))),
          WCloseOpen(ElseHead)>>
        \o EmitRequired(ctx, required, SortedKeys(DOMAIN required), 1)
        \o EmitOptional(ctx, optional, SortedKeys(DOMAIN optional), 1)
        \o (IF ~additional THEN EmitAdditional(ctx, required, optional, discrim_tag)
            ELSE <<>>)
        \o <<WClose>>

\* step 4 of emit_discriminator_node
EmitVariants(ctx, tag, mapping, keys, i) ==
    IF i > Len(keys) THEN <<>>
    ELSE LET variant_key == keys[i]
         IN  <<WCloseOpen(ElseIfHead([c |-> "tag_is", tag |-> escape_js(tag),
                                      variant |-> escape_js(variant_key),
                                      val |-> ctx.val]))>>
             \o emit_node(discrim_variant(ctx, variant_key), mapping[variant_key],
                          Some(tag))
             \o EmitVariants(ctx, tag, mapping, keys, i + 1)

emit_discriminator_node(ctx, tag, mapping) ==
    LET escaped_tag == escape_js(tag)
    IN  <<WOpen(IfHead(NotObject(ctx.val))),
          WLine(push_error(ctx, Lit("/discriminator", ""))),
          WCloseOpen(ElseIfHead([c |-> "not_has", key |-> escaped_tag, val |-> ctx.val])),
          WLine(push_error(ctx, Lit("/discriminator", ""))),
          WCloseOpen(ElseIfHead([c |-> "tag_not_string", tag |-> escaped_tag,
                                 val |-> ctx.val])),
          WLine(push_error_at(ctx, Lit("/", escaped_tag), Lit("/discriminator", "")))>>
        \o EmitVariants(ctx, tag, mapping, SortedKeys(DOMAIN mapping), 1)
        \o <<WCloseOpen(ElseHead),
             WLine(push_error_at(ctx, Lit("/", escaped_tag), Lit("/mapping", ""))),
             WClose>>

emit_node(ctx, node, discrim_tag) ==
    CASE node.kind = "Empty" -> emit_empty(ctx)
      [] node.kind = "Type" -> emit_type(ctx, node.type_kw)
      [] node.kind = "Enum" -> emit_enum(ctx, node.values)
      [] node.kind = "Ref" -> emit_ref(ctx, node.name)
      [] node.kind = "Nullable" ->
            emit_nullable(ctx, node.inner.kind = "Empty", node.inner)
      [] node.kind = "Elements" -> emit_elements(ctx, node.schema)
      [] node.kind = "Values" -> emit_values(ctx, node.schema)
      [] node.kind = "Properties" ->
            emit_properties_node(ctx, node.required, node.optional, node.additional,
                                 discrim_tag)
      [] node.kind = "Discriminator" ->
            emit_discriminator_node(ctx, node.tag, node.mapping)

\* the loop over schema.definitions of emit
RECURSIVE EmitDefinitions(_, _, _)
EmitDefinitions(definitions, names, i) ==
    IF i > Len(names) THEN <<>>
    ELSE <<WOpen([h |-> "function", name |-> def_fn_name(names[i]),
                  params |-> <<"v", "e", "p", "sp">>])>>
         \o emit_node(DefinitionContext, definitions[names[i]], None)
         \o <<WClose, WLine([s |-> ""])>>
         \o EmitDefinitions(definitions, names, i + 1)

\* an emit that left the body of validate open
EmitCallsUnclosed(compiled) ==
    EmitDefinitions(compiled.definitions, SortedKeys(DOMAIN compiled.definitions), 1)
    \o <<WOpen([h |-> "function", name |-> "validate", params |-> <<"instance">>]),
         WLine([s |-> "const e = [];"])>>
    \o emit_node(RootContext, compiled.root, None)
    \o <<WLine([s |-> "return e;"])>>

\* the calls emit makes on its writer
EmitCalls(compiled) ==
    EmitDefinitions(compiled.definitions, SortedKeys(DOMAIN compiled.definitions), 1)
    \o <<WOpen([h |-> "function", name |-> "validate", params |-> <<"instance">>]),
         WLine([s |-> "const e = [];"])>>
    \o emit_node(RootContext, compiled.root, None)
    \o <<WLine([s |-> "return e;"]), WClose>>

\* one writer call
Call(w, c) ==
    CASE c.op = "line" -> line(w, c.text)
      [] c.op = "open" -> open(w, c.text)
      [] c.op = "close" -> close(w)
      [] c.op = "close_open" -> close_open(w, c.text)

\* the calls cs[lo..hi] in order
RECURSIVE Calls(_, _, _, _)
Calls(w, cs, lo, hi) ==
    IF lo > hi THEN w
    ELSE IF lo = hi THEN Call(w, cs[lo])
    ELSE LET mid == (lo + hi) \div 2
             w1 == Calls(w, cs, lo, mid)
         IN  \* depth is a usize; the test makes the first half complete first
             IF w1.depth >= 0 THEN Calls(w1, cs, mid + 1, hi) ELSE w1

emit(compiled) ==
    LET cs == EmitCalls(compiled)
    IN  finish(Calls(NewWriter, cs, 1, Len(cs)))

(***************************************************************************)
(* The meaning of the emitted module: ECMAScript evaluation of exactly the *)
(* statements and expressions the emitter writes.  A run either returns    *)
(* the array e or ends in a thrown error.                                  *)
(***************************************************************************)
Undefined == [t |-> "undefined"]
Function == [t |-> "function"]
\* a const binding that is declared but not yet initialised
Uninitialised == [t |-> "tdz"]

\* the property names every object inherits from Object.prototype
ProtoKeys == {"constructor"}

TypeOf(v) ==
    CASE v.t = "null" -> "object"
      [] v.t = "bool" -> "boolean"
      [] v.t = "num" -> "number"
      [] v.t = "str" -> "string"
      [] v.t \in {"arr", "obj"} -> "object"
      [] v.t = "function" -> "function"
      [] OTHER -> "undefined"

\* the string a double-quoted literal denotes: escape_js undone
Unescape(body) ==
    IF \E k \in DOMAIN Chars : escape_js(k) = body
    THEN CHOOSE k \in DOMAIN Chars : escape_js(k) = body
    ELSE body

StringValue(lit) == lit.pre \o Unescape(lit.body)

Value(v) == [thrown |-> "", v |-> v]
Throw(name) == [thrown |-> name]

\* ToString of a property key or of an operand of +
KeyString(v) == IF v.t = "num" THEN ToString(v.hi * 65536 + v.lo) ELSE v.s

\* a < b for numbers hi * 65536 + lo
LessThan(a, b) == a.hi < b.hi \/ (a.hi = b.hi /\ a.lo < b.lo)

\* cur[key] for cur neither null nor undefined
GetProp(cur, key) ==
    CASE cur.t = "obj" ->
            IF KeyString(key) \in DOMAIN cur.o THEN cur.o[KeyString(key)]
            ELSE IF KeyString(key) \in ProtoKeys THEN Function
            ELSE Undefined
      [] cur.t = "arr" ->
            IF key.t = "num" /\ key.hi = 0 /\ key.lo < Len(cur.a) THEN cur.a[key.lo + 1]
            ELSE Undefined
      [] OTHER -> Undefined

\* a variable reference
Lookup(name, env) ==
    IF name \notin DOMAIN env \/ env[name] = Uninitialised THEN Throw("ReferenceError")
    ELSE Value(env[name])

RECURSIVE Access(_, _, _, _)
Access(cur, val, i, env) ==
    IF i > Len(val) THEN Value(cur)
    ELSE LET key == IF "var" \in DOMAIN val[i] THEN Lookup(val[i].var, env)
                    ELSE Value(JStr(StringValue(val[i])))
         IN  IF key.thrown # "" THEN key
             ELSE IF cur \in {JNull, Undefined} THEN Throw("TypeError")
             ELSE Access(GetProp(cur, key.v), val, i + 1, env)

\* the expression ctx.val
EvalVal(val, env) ==
    LET base == Lookup(val[1].var, env)
    IN  IF base.thrown # "" THEN base ELSE Access(base.v, val, 2, env)

\* the expressions ctx.ip and ctx.sp: a + b + ...
RECURSIVE EvalStr(_, _, _)
EvalStr(parts, i, env) ==
    IF i > Len(parts) THEN Value("")
    ELSE LET rest == EvalStr(parts, i + 1, env)
             part == IF "var" \in DOMAIN parts[i]
                     THEN LET r == Lookup(parts[i].var, env)
                          IN  IF r.thrown # "" THEN r ELSE Value(KeyString(r.v))
                     ELSE Value(StringValue(parts[i]))
         IN  IF part.thrown # "" THEN part
             ELSE IF rest.thrown # "" THEN rest
             ELSE Value(part.v \o rest.v)

IsObjectValue(v) == ~(v = JNull \/ TypeOf(v) # "object" \/ v.t = "arr")

\* the strings the timestamp pattern and Date.parse accept
JsTimestamps == {"1985-04-12T23:20:50Z"}

\* "key" in v
HasProperty(key, v) ==
    IF TypeOf(v) \notin {"object", "function"} \/ v = JNull THEN Throw("TypeError")
    ELSE Value(v.t = "obj" /\ (key \in DOMAIN v.o \/ key \in ProtoKeys))

\* a condition whose only operand is val, given the value of val
CondOn(c, v) ==
    CASE c.c = "typeof_ne" -> Value(TypeOf(v) # c.ty)
      [] c.c = "not_timestamp" -> Value(TypeOf(v) # "string" \/ v.s \notin JsTimestamps)
      [] c.c = "not_finite" -> Value(TypeOf(v) # "number")
      [] c.c = "int" ->
            Value(TypeOf(v) # "number" \/ v.half
                  \/ LessThan(v, c.min) \/ LessThan(c.max, v))
      [] c.c = "not_in_enum" ->
            Value(TypeOf(v) # "string"
                  \/ \A i \in 1..Len(c.items) : Unescape(c.items[i]) # v.s)
      [] c.c = "not_null" -> Value(v # JNull)
      [] c.c = "not_object" -> Value(~IsObjectValue(v))
      [] c.c = "not_array" -> Value(v.t # "arr")
      [] c.c = "has" -> HasProperty(Unescape(c.key), v)
      [] c.c = "not_has" ->
            LET r == HasProperty(Unescape(c.key), v)
            IN  IF r.thrown # "" THEN r ELSE Value(~r.v)
      [] c.c = "tag_not_string" ->
            IF v \in {JNull, Undefined} THEN Throw("TypeError")
            ELSE Value(TypeOf(GetProp(v, JStr(Unescape(c.tag)))) # "string")
      [] c.c = "tag_is" ->
            IF v \in {JNull, Undefined} THEN Throw("TypeError")
            ELSE Value(GetProp(v, JStr(Unescape(c.tag))) = JStr(Unescape(c.variant)))

EvalCond(c, env) ==
    IF c.c = "none_of"
    THEN LET r == Lookup(c.var, env)
         IN  IF r.thrown # "" THEN r
             ELSE Value(\A i \in 1..Len(c.keys) : r.v # JStr(Unescape(c.keys[i])))
    ELSE LET r == EvalVal(c.val, env)
         IN  IF r.thrown # "" THEN r ELSE CondOn(c, r.v)

\* the braces still open at line j of those opened from line i on
OpenAt(prog, i, j) ==
    Cardinality({k \in i..(j - 1) : prog[k].kind = "open"})
    - Cardinality({k \in i..(j - 1) : prog[k].kind = "close"})

\* the line whose brace closes the block that starts at line i
Closer(prog, i) ==
    LET closers == {j \in i..Len(prog) :
                        /\ prog[j].kind \in {"close", "close_open"}
                        /\ OpenAt(prog, i, j) = 0}
    IN  IF closers = {} THEN Len(prog) + 1
        ELSE CHOOSE j \in closers : \A k \in closers : j <= k

\* the closing brace that ends the if / else if / else chain starting at i
RECURSIVE ChainEnd(_, _)
ChainEnd(prog, i) ==
    LET c == Closer(prog, i + 1)
    IN  IF c > Len(prog) \/ prog[c].kind = "close" THEN c ELSE ChainEnd(prog, c)

\* the top-level function declarations from line i on
RECURSIVE Declarations(_, _)
Declarations(prog, i) ==
    IF i > Len(prog) THEN <<>>
    ELSE IF prog[i].kind = "open" /\ "h" \in DOMAIN prog[i].text
            /\ prog[i].text.h = "function"
    THEN LET c == Closer(prog, i + 1)
         IN  <<[name |-> prog[i].text.name, first |-> i + 1, last |-> c - 1]>>
             \o Declarations(prog, c + 1)
    ELSE Declarations(prog, i + 1)

\* st.where[i] is the function that pushed st.errs[i]
Failed(st, name) == [errs |-> st.errs, where |-> st.where, thrown |-> name]

IsIfLine(ln) == ln.kind = "line" /\ ln.text.s = "if"
IsElseOpen(ln) == ln.kind = "open" /\ ln.text = ElseHead

RECURSIVE Exec(_, _, _, _, _, _)
RECURSIVE ExecStmt(_, _, _, _, _)
RECURSIVE IfChain(_, _, _, _, _)
RECURSIVE ForEach(_, _, _, _, _, _, _, _)
RECURSIVE ExecOpen(_, _, _, _, _)

\* one statement of a line
ExecStmt(m, stmt, env, st, stack) ==
    CASE stmt.s = "push" ->
            LET ip == EvalStr(stmt.ip, 1, env)
                sp == EvalStr(stmt.sp, 1, env)
            IN  IF ip.thrown # "" THEN Failed(st, ip.thrown)
                ELSE IF sp.thrown # "" THEN Failed(st, sp.thrown)
                ELSE [errs |-> Append(st.errs, <<ip.v, sp.v>>),
                      where |-> Append(st.where, m.cur), thrown |-> ""]
      [] stmt.s = "if" ->
            LET c == EvalCond(stmt.cond, env)
            IN  IF c.thrown # "" THEN Failed(st, c.thrown)
                ELSE IF c.v THEN ExecStmt(m, stmt.then, env, st, stack)
                ELSE st
      [] stmt.s = "call" ->
            LET v == EvalVal(stmt.val, env)
                ip == EvalStr(stmt.ip, 1, env)
                sp == EvalStr(stmt.sp, 1, env)
                frame == <<stmt.fn, v.v, ip.v>>
            IN  IF stmt.fn \notin DOMAIN m.fns THEN Failed(st, "ReferenceError")
                ELSE IF v.thrown # "" THEN Failed(st, v.thrown)
                ELSE IF ip.thrown # "" THEN Failed(st, ip.thrown)
                ELSE IF sp.thrown # "" THEN Failed(st, sp.thrown)
                \* the same call again from inside itself: unbounded recursion
                ELSE IF frame \in stack THEN Failed(st, "RangeError")
                ELSE Exec([m EXCEPT !.cur = stmt.fn],
                          m.fns[stmt.fn].first, m.fns[stmt.fn].last,
                          [v |-> v.v, e |-> JStr("e"), p |-> JStr(ip.v), sp |-> JStr(sp.v)],
                          st, stack \cup {frame})
      [] OTHER -> st

\* the loop body first..last once for each item bound to var
ForEach(m, first, last, var, items, env, st, stack) ==
    IF items = <<>> \/ st.thrown # "" THEN st
    ELSE ForEach(m, first, last, var, Tail(items), env,
                 Exec(m, first, last, (var :> Head(items)) @@ env, st, stack), stack)

\* the chain link whose head is line i
IfChain(m, i, env, st, stack) ==
    LET c == Closer(m.prog, i + 1)
        head == m.prog[i].text
        cond == IF head.h = "else" THEN Value(TRUE) ELSE EvalCond(head.cond, env)
    IN  IF cond.thrown # "" THEN Failed(st, cond.thrown)
        ELSE IF cond.v THEN Exec(m, i + 1, c - 1, env, st, stack)
        ELSE IF c <= Len(m.prog) /\ m.prog[c].kind = "close_open"
        THEN IfChain(m, c, env, st, stack)
        ELSE st

\* the block statement whose head is line i
ExecOpen(m, i, env, st, stack) ==
    LET c == Closer(m.prog, i + 1)
        head == m.prog[i].text
    IN  CASE head.h = "if" -> IfChain(m, i, env, st, stack)
          [] head.h = "for" ->
                LET v == EvalVal(head.val, env)
                IN  IF v.thrown # "" THEN Failed(st, v.thrown)
                    ELSE IF v.v.t # "arr" THEN st
                    ELSE ForEach(m, i + 1, c - 1, head.var,
                                 [n \in 1..Len(v.v.a) |-> JNum(n - 1)], env, st, stack)
          [] head.h = "for in" ->
                \* the head expression is evaluated with var declared
                \* but not initialised
                LET v == EvalVal(head.val, (head.var :> Uninitialised) @@ env)
                    keys == IF v.v.t = "obj" THEN SortedKeys(DOMAIN v.v.o) ELSE <<>>
                IN  IF v.thrown # "" THEN Failed(st, v.thrown)
                    ELSE ForEach(m, i + 1, c - 1, head.var,
                                 [n \in 1..Len(keys) |-> JStr(keys[n])], env, st, stack)
          [] OTHER -> Failed(st, "SyntaxError")

\* the statements of lines i..j in order
Exec(m, i, j, env, st, stack) ==
    IF i > j \/ st.thrown # "" THEN st
    ELSE IF IsIfLine(m.prog[i]) /\ i < j /\ IsElseOpen(m.prog[i + 1])
    THEN LET c == Closer(m.prog, i + 2)
             cond == EvalCond(m.prog[i].text.cond, env)
         IN  IF cond.thrown # "" THEN Failed(st, cond.thrown)
             ELSE IF cond.v
             THEN Exec(m, c + 1, j, env,
                       ExecStmt(m, m.prog[i].text.then, env, st, stack), stack)
             ELSE Exec(m, c + 1, j, env, Exec(m, i + 2, c - 1, env, st, stack), stack)
    ELSE IF m.prog[i].kind = "line"
    THEN Exec(m, i + 1, j, env, ExecStmt(m, m.prog[i].text, env, st, stack), stack)
    ELSE IF m.prog[i].kind = "open"
    THEN Exec(m, ChainEnd(m.prog, i) + 1, j, env, ExecOpen(m, i, env, st, stack), stack)
    ELSE Failed(st, "SyntaxError")

\* import the module and call validate(instance)
RunValidate(prog, inst) ==
    LET decls == Declarations(prog, 1)
        names == {decls[i].name : i \in 1..Len(decls)}
        fns == [n \in names |->
                   LET i == CHOOSE i \in 1..Len(decls) : decls[i].name = n
                   IN  [first |-> decls[i].first, last |-> decls[i].last]]
        start == [errs |-> <<>>, where |-> <<>>, thrown |-> ""]
    IN  \* a module may declare a top-level name only once
        IF Cardinality(names) # Len(decls) THEN Failed(start, "SyntaxError")
        ELSE Exec([prog |-> prog, fns |-> fns, cur |-> "validate"], fns["validate"].first,
                  fns["validate"].last, [instance |-> inst], start, {})

(***************************************************************************)
(* Bounded families of schema documents (the inputs of compile)            *)
(***************************************************************************)
MaxForms == 2
MaxEnumLen == 3
MaxDepth == 2

O(k, v) == JObj(k :> v)
EmptyObj == JObj(EmptyMap)
\* a JSON value that is neither string, boolean, array nor object
Bad == JNum(1)

\* the object a extended by the members of b
With(a, b) == JObj(b.o @@ a.o)

\* every map that gives each key of the sequence ks either no value or
\* one of vals[k]
RECURSIVE MapsOver(_, _)
MapsOver(ks, vals) ==
    IF ks = <<>> THEN {EmptyMap}
    ELSE LET rest == MapsOver(Tail(ks), vals)
         IN  rest \cup {Insert(m, Head(ks), v) : m \in rest, v \in vals[Head(ks)]}

\* sequences over S of length at most n
RECURSIVE SeqsUpTo(_, _)
SeqsUpTo(S, n) ==
    IF n = 0 THEN {<<>>}
    ELSE LET shorter == SeqsUpTo(S, n - 1)
         IN  shorter \cup {Append(q, x) : q \in shorter, x \in S}

FormKeys == <<"ref", "type", "enum", "elements", "values", "discriminator",
              "properties", "optionalProperties">>

\* one well-formed and one ill-formed value per form keyword
FormVals ==
    [ref |-> {JStr("a"), Bad},
     type |-> {JStr("string"), JStr("bogus")},
     enum |-> {JArr(<<JStr("a")>>), JArr(<<>>)},
     elements |-> {EmptyObj, Bad},
     values |-> {O("type", JStr("uint8")), Bad},
     discriminator |-> {JStr("p"), Bad},
     properties |-> {O("q", EmptyObj), Bad},
     optionalProperties |-> {O("n", EmptyObj), Bad}]

ModifierVals ==
    [nullable |-> {JBool(TRUE), JBool(FALSE), JStr("x")},
     mapping |-> {O("m", O("properties", EmptyObj))},
     definitions |-> {O("a", EmptyObj)}]

NumForms(m) == Len(DetectForms(m))

\* root objects with at most MaxForms form keywords, with and without
\* nullable, mapping and definitions
FormDocs ==
    {JObj(f @@ g) :
        f \in {m \in MapsOver(FormKeys, FormVals) : NumForms(m) <= MaxForms},
        g \in MapsOver(<<"nullable", "mapping", "definitions">>, ModifierVals)}

\* members outside the form keywords: additionalProperties, metadata and an
\* unknown keyword, alone and next to one form
ExtraVals ==
    [additionalProperties |-> {JBool(TRUE), JBool(FALSE), Bad},
     metadata |-> {EmptyObj, Bad},
     foo |-> {Bad},
     type |-> {JStr("string"), Bad},
     properties |-> {O("q", EmptyObj)},
     nullable |-> {JBool(TRUE)}]

ExtraDocs ==
    {JObj(m) : m \in MapsOver(<<"additionalProperties", "metadata", "foo", "type",
                                "properties", "nullable">>, ExtraVals)}

\* enum values: every array of at most MaxEnumLen elements, and non-arrays
EnumDocs ==
    {O("enum", JArr(q)) : q \in SeqsUpTo({JStr("a"), JStr("b"), Bad}, MaxEnumLen)}
    \cup {O("enum", JStr("a")), O("enum", EmptyObj),
          With(O("enum", JArr(<<JStr("b"), JStr("a")>>)), O("nullable", JBool(TRUE)))}

\* leaf schemas, valid and invalid
Leaves ==
    {EmptyObj, O("type", JStr("string")), O("type", JStr("bogus")),
     O("nullable", JBool(TRUE)), O("nullable", JStr("x")),
     With(O("type", JStr("boolean")), O("nullable", JBool(TRUE))),
     O("ref", JStr("a")), O("ref", JStr("zz")),
     O("definitions", EmptyObj), O("definitions", Bad),
     With(O("ref", JStr("a")), O("definitions", O("a", EmptyObj))),
     Bad}

\* the schemas that hold x as a sub-schema
Wrap(x) ==
    {O("elements", x), O("values", x),
     With(O("elements", x), O("nullable", JBool(TRUE))),
     O("properties", O("p", x)), O("optionalProperties", O("p", x)),
     With(O("discriminator", JStr("q")), O("mapping", O("m", x)))}

RECURSIVE Nested(_)
Nested(d) ==
    IF d = 0 THEN Leaves
    ELSE LET inner == Nested(d - 1)
         IN  inner \cup UNION {Wrap(x) : x \in inner}

\* nested schemas as the root, with and without a root definition a, and
\* as the body of a definition
NestedDocs ==
    LET N == Nested(MaxDepth)
        Objs == {x \in N : IsObj(x)}
    IN  N \cup {With(x, O("definitions", O("a", EmptyObj))) :
                    x \in {y \in Objs : ~Has(y.o, "definitions")}}
          \cup {O("definitions", O("a", x)) : x \in Nested(MaxDepth - 1)}

\* definitions a and b with bodies that reference a, b and the undefined zz
DefBodies ==
    {EmptyObj, O("ref", JStr("a")), O("ref", JStr("b")), O("ref", JStr("zz")),
     O("elements", O("ref", JStr("a"))), O("elements", O("ref", JStr("b"))),
     With(O("ref", JStr("b")), O("nullable", JBool(TRUE))),
     O("type", JStr("uint8")), O("type", JStr("bogus")), Bad}

DefRoots ==
    {EmptyMap, "ref" :> JStr("a"), "ref" :> JStr("b"), "ref" :> JStr("zz"),
     "values" :> O("ref", JStr("b")), "type" :> JStr("bogus"),
     "type" :> JStr("string") @@ "enum" :> JArr(<<JStr("a")>>)}

DefDocs ==
    {JObj(Insert(r, "definitions", JObj(d))) :
        r \in DefRoots,
        d \in MapsOver(<<"a", "b">>, [a |-> DefBodies, b |-> DefBodies])}
    \cup {O("definitions", Bad), O("definitions", JArr(<<>>)), Bad, JStr("a"),
          JArr(<<>>), JNull}

\* properties and optionalProperties over the keys p and q
PropSchemas == {EmptyObj, O("type", JStr("string")), O("type", JStr("bogus")), Bad}

PropMaps ==
    {JObj(m) : m \in MapsOver(<<"p", "q">>, [p |-> PropSchemas, q |-> PropSchemas])}
    \cup {Bad}

PropDocs ==
    {JObj(m) : m \in MapsOver(<<"properties", "optionalProperties",
                                "additionalProperties">>,
                              [properties |-> PropMaps,
                               optionalProperties |-> PropMaps,
                               additionalProperties |-> {JBool(TRUE), Bad}])}

\* discriminators with the tag p or q over the variants m and n
Variants ==
    {O("properties", EmptyObj), O("properties", O("p", EmptyObj)),
     O("optionalProperties", O("p", EmptyObj)), O("properties", O("q", EmptyObj)),
     With(O("properties", O("q", EmptyObj)), O("nullable", JBool(TRUE))),
     With(O("properties", O("p", EmptyObj)), O("nullable", JBool(TRUE))),
     With(O("properties", O("q", EmptyObj)), O("nullable", JBool(FALSE))),
     EmptyObj, O("type", JStr("string")), O("nullable", JBool(TRUE)),
     O("elements", EmptyObj), O("type", JStr("bogus")), Bad}

DiscDocsFlat ==
    {JObj(m) : m \in MapsOver(<<"discriminator", "mapping">>,
        [discriminator |-> {JStr("p"), JStr("q"), Bad},
         mapping |-> {JObj(v) : v \in MapsOver(<<"m", "n">>,
                                    [m |-> Variants, n |-> Variants])}
                     \cup {Bad}])}

DiscDocs == DiscDocsFlat \cup {O("elements", d) : d \in DiscDocsFlat}

SchemaDocs == FormDocs \cup ExtraDocs \cup EnumDocs \cup NestedDocs \cup DefDocs
                \cup PropDocs \cup DiscDocs

(***************************************************************************)
(* Schemas and instances for running the generated validator              *)
(***************************************************************************)
TypeOf_(kw) == O("type", JStr(kw))
Nullable_(x) == With(x, O("nullable", JBool(TRUE)))

ValidationLeaves ==
    {EmptyObj, Nullable_(EmptyObj), Nullable_(TypeOf_("string")),
     O("enum", JArr(<<JStr("a"), JStr("p")>>))}
    \cup {TypeOf_(kw) : kw \in {"boolean", "string", "timestamp", "float64", "int8",
                                 "uint8", "int32", "uint32"}}

\* one form around the schema x
Around(x) ==
    {O("elements", x), O("values", x), Nullable_(O("elements", x)),
     O("properties", O("a", x)), O("optionalProperties", O("a", x)),
     With(O("properties", O("a", x)), O("additionalProperties", JBool(TRUE))),
     With(O("properties", O("a", x)), O("optionalProperties", O("b", x))),
     O("properties", O("constructor", x)),
     With(O("discriminator", JStr("a")),
          O("mapping", JObj(("p" :> O("properties", O("b", x)))
                            @@ ("q" :> O("optionalProperties", O("b", x))))))}

InnerLeaves == {EmptyObj, TypeOf_("string")}

\* the root refers to a definition, which may refer to itself
RefDocs ==
    {With(O("definitions", O("a", body)), root) :
        body \in {TypeOf_("uint8"), O("elements", O("ref", JStr("a"))),
                  O("values", O("ref", JStr("a"))),
                  O("properties", O("a", TypeOf_("string"))), O("ref", JStr("a"))},
        root \in {O("ref", JStr("a")), O("elements", O("ref", JStr("a"))),
                  Nullable_(O("ref", JStr("a")))}}

\* schemas whose definitions, properties, optionalProperties and mapping
\* have two keys
MultiKeyDocs ==
    {With(O("definitions", JObj(("a" :> x) @@ ("b" :> y))), root) :
        x \in {TypeOf_("string"), O("elements", O("ref", JStr("b")))},
        y \in {TypeOf_("uint8"), O("values", O("ref", JStr("a")))},
        root \in {O("ref", JStr("a")), O("ref", JStr("b"))}}
    \cup {With(O("properties", JObj(("a" :> x) @@ ("b" :> y))),
               O("optionalProperties", JObj(("p" :> y) @@ ("q" :> x)))) :
              x \in {EmptyObj, TypeOf_("string")},
              y \in {TypeOf_("uint8"), O("elements", EmptyObj)}}

\* a required and an optional property, additional properties rejected
Scenario3Doc ==
    With(O("properties", O("name", TypeOf_("string"))),
         O("optionalProperties", O("age", TypeOf_("uint8"))))

Scenario3Instance ==
    JObj(("name" :> JNum(1)) @@ ("age" :> JNum(-1)) @@ ("x" :> JBool(TRUE)))

\* a discriminator whose tag is a member every object inherits
InheritedTagDoc ==
    With(O("discriminator", JStr("constructor")),
         O("mapping", O("p", O("properties", O("b", EmptyObj)))))

\* a definition that is the empty form made nullable
NullableEmptyDefinitionDoc ==
    With(O("definitions", O("a", Nullable_(EmptyObj))), O("ref", JStr("a")))

\* two definitions whose names differ only in a character that is neither
\* alphanumeric nor an underscore
CollidingNamesDocs ==
    {With(O("definitions", JObj(("m_n" :> TypeOf_("string"))
                                @@ ("m~n" :> TypeOf_("uint8")))),
          O("ref", JStr(d))) : d \in {"m_n", "m~n"}}

\* a variant whose property b is a Properties form that does not declare the
\* tag a
TagBelowVariantDoc ==
    With(O("discriminator", JStr("a")),
         O("mapping", O("p", O("properties",
                                O("b", O("optionalProperties", O("b", EmptyObj)))))))

TagBelowVariantInstance == JObj(("a" :> JStr("p")) @@ ("b" :> O("a", JNum(1))))

ValidationDocs ==
    ValidationLeaves
    \cup UNION {Around(x) : x \in ValidationLeaves}
    \cup UNION {Around(y) : y \in UNION {Around(x) : x \in InnerLeaves}}
    \cup {O("properties", EmptyObj), O("optionalProperties", EmptyObj)}
    \cup RefDocs
    \cup MultiKeyDocs
    \cup {O("properties", O("a/b", TypeOf_("string"))),
          O("optionalProperties", O("m~n", TypeOf_("string")))}
    \cup {Scenario3Doc, InheritedTagDoc, NullableEmptyDefinitionDoc, TagBelowVariantDoc}
    \cup CollidingNamesDocs

Scalars ==
    {JNull, JBool(TRUE), JNum(1), JNum(-1), JNum(200), JNum(-129), JNum(70000),
     JNumber(0, 1, TRUE), JNumber(32768, 0, FALSE), JNumber(-32769, 65535, FALSE),
     JNumber(65536, 0, FALSE), JStr("a"), JStr("q"), JStr("1985-04-12T23:20:50Z")}

Instances ==
    Scalars
    \cup {JArr(<<>>), JArr(<<JStr("a")>>), JArr(<<JNum(1), JStr("a")>>),
          JArr(<<JArr(<<JNum(1)>>)>>), JArr(<<O("a", JStr("a"))>>)}
    \cup {EmptyObj, O("b", JNum(1)), O("constructor", JStr("a"))}
    \cup {O("a/b", JNum(1)), O("m~n", JNum(1)), Scenario3Instance,
          TagBelowVariantInstance,
          O("a", O("b", JNum(1))), JArr(<<O("b", JNum(1))>>)}
    \cup {O("a", v) : v \in {JNum(1), JStr("a"), JStr("p"), JStr("q"), JNull,
                              JArr(<<JNum(1)>>), O("a", JStr("a")), O("a", JNum(1))}}
    \cup {JObj(("a" :> JStr(t)) @@ ("b" :> v)) :
              t \in {"p", "q"}, v \in {JStr("a"), JNum(1)}}
    \cup {JObj(("a" :> JStr("p")) @@ ("b" :> JStr("a")) @@ ("m" :> JNum(1)))}

NotRun == [ok |-> FALSE, err |-> [e |-> "NotRun"]]
NoCode == <<>>
NoOutput == [thrown |-> "NotRun", errs |-> <<>>, where |-> <<>>]

Init ==
    /\ schema \in SchemaDocs
    /\ order = KeyOrder
    /\ pc = "start"
    /\ result = NotRun
    /\ code = NoCode
    /\ prev = NoCode
    /\ instance = JNull
    /\ output = NoOutput
    /\ target = "js"
    /\ writer = NewWriter
    /\ context = RootContext

\* compile(&schema)
Compile ==
    /\ pc = "start"
    /\ result' = compile(schema)
    /\ pc' = "compiled"
    /\ UNCHANGED <<schema, order, code, prev, instance, output>>
    /\ UNCHANGED <<target, writer, context>>

Next == Compile

Spec == Init /\ [][Next]_vars

InitV ==
    /\ schema \in ValidationDocs
    /\ order = KeyOrder
    /\ pc = "start"
    /\ result = NotRun
    /\ code = NoCode
    /\ prev = NoCode
    /\ instance = JNull
    /\ output = NoOutput
    /\ target = "js"
    /\ writer = NewWriter
    /\ context = RootContext

\* emit(&compiled)
Emit ==
    /\ pc = "compiled"
    /\ result.ok
    /\ code' = emit(result)
    /\ pc' = "emitted"
    /\ UNCHANGED <<schema, order, result, prev, instance, output>>
    /\ UNCHANGED <<target, writer, context>>

\* the host loads the module and calls validate(instance)
Validate ==
    /\ pc = "emitted"
    /\ \E inst \in Instances :
           /\ instance' = inst
           /\ output' = RunValidate(code, inst)
    /\ pc' = "validated"
    /\ UNCHANGED <<schema, order, result, code, prev>>
    /\ UNCHANGED <<target, writer, context>>

NextV == Compile \/ Emit \/ Validate

SpecV == InitV /\ [][NextV]_vars

(***************************************************************************)
(* Two runs over one document written with two key orders                  *)
(***************************************************************************)
Reverse(s) == [i \in 1..Len(s) |-> s[Len(s) + 1 - i]]

\* the orders in which a document may write its keys
Orders == {KeyOrder, Reverse(KeyOrder), Tail(KeyOrder) \o <<Head(KeyOrder)>>}

DeterminismDocs == ValidationDocs

InitD ==
    /\ schema \in DeterminismDocs
    /\ order \in Orders
    /\ pc = "start"
    /\ result = NotRun
    /\ code = NoCode
    /\ prev = NoCode
    /\ instance = JNull
    /\ output = NoOutput
    /\ target = "js"
    /\ writer = NewWriter
    /\ context = RootContext

\* the same document, its keys written in a possibly different order, is
\* handed to a second run; the text of the first run is kept in prev
Reorder ==
    /\ pc = "emitted"
    /\ prev = NoCode
    /\ \E o \in Orders : order' = o
    /\ prev' = code
    /\ pc' = "start"
    /\ result' = NotRun
    /\ code' = NoCode
    /\ UNCHANGED <<schema, instance, output>>
    /\ UNCHANGED <<target, writer, context>>

NextD == Compile \/ Emit \/ Reorder

SpecD == InitD /\ [][NextD]_vars

(***************************************************************************)
(* The emission context on its own: a context of the JS or the Lua         *)
(* back-end, and the descent operators applied to it one after another.    *)
(***************************************************************************)
MaxDescent == 3

\* keys with a double quote, a backslash and a newline, and a plain one
ContextKeys == {"a", "a\"b", "p\\q", "x\ny"}

InitC ==
    /\ schema = EmptyObj
    /\ order = KeyOrder
    /\ pc = "start"
    /\ result = NotRun
    /\ code = NoCode
    /\ prev = NoCode
    /\ instance = JNull
    /\ output = NoOutput
    /\ target \in {"js", "lua"}
    /\ writer = NewWriter
    /\ context \in {RootContext, DefinitionContext}

RequiredProp ==
    /\ Len(context.sp) <= MaxDescent
    /\ \E key \in ContextKeys :
           context' = IF target = "js" THEN required_prop(context, key)
                      ELSE lua_required_prop(context, key)
    /\ UNCHANGED <<schema, order, pc, result, code, prev, instance, output,
                   target, writer>>

OptionalProp ==
    /\ Len(context.sp) <= MaxDescent
    /\ \E key \in ContextKeys :
           context' = IF target = "js" THEN optional_prop(context, key)
                      ELSE lua_optional_prop(context, key)
    /\ UNCHANGED <<schema, order, pc, result, code, prev, instance, output,
                   target, writer>>

DiscrimVariant ==
    /\ Len(context.sp) <= MaxDescent
    /\ \E key \in ContextKeys :
           context' = IF target = "js" THEN discrim_variant(context, key)
                      ELSE lua_discrim_variant(context, key)
    /\ UNCHANGED <<schema, order, pc, result, code, prev, instance, output,
                   target, writer>>

\* emit_elements: ctx.element(&ctx.idx_var())
Element ==
    /\ Len(context.sp) <= MaxDescent
    /\ context' = IF target = "js" THEN element(context, idx_var(context))
                  ELSE lua_element(context, idx_var(context))
    /\ UNCHANGED <<schema, order, pc, result, code, prev, instance, output,
                   target, writer>>

\* emit_values: ctx.values_entry(&ctx.key_var())
ValuesEntry ==
    /\ Len(context.sp) <= MaxDescent
    /\ context' = IF target = "js" THEN values_entry(context, key_var(context))
                  ELSE lua_values_entry(context, key_var(context))
    /\ UNCHANGED <<schema, order, pc, result, code, prev, instance, output,
                   target, writer>>

NextC == RequiredProp \/ OptionalProp \/ Element \/ ValuesEntry \/ DiscrimVariant

SpecC == InitC /\ [][NextC]_vars

(***************************************************************************)
(* The CodeWriter on its own: any sequence of calls on the writer of one   *)
(* back-end.                                                               *)
(***************************************************************************)
MaxLines == 4

WriterTexts == {"a", "b"}

InitW ==
    /\ schema = EmptyObj
    /\ order = KeyOrder
    /\ pc = "start"
    /\ result = NotRun
    /\ code = NoCode
    /\ prev = NoCode
    /\ instance = JNull
    /\ output = NoOutput
    /\ target \in {"js", "lua", "py"}
    /\ writer = NewWriter
    /\ context = RootContext

Line ==
    /\ Len(writer.buf) < MaxLines
    /\ \E text \in WriterTexts :
           writer' = CASE target = "js" -> line(writer, text)
                       [] target = "lua" -> lua_line(writer, text)
                       [] target = "py" -> py_line(writer, text)
    /\ UNCHANGED <<schema, order, pc, result, code, prev, instance, output,
                   target, context>>

Open ==
    /\ Len(writer.buf) < MaxLines
    /\ \E text \in WriterTexts :
           writer' = CASE target = "js" -> open(writer, text)
                       [] target = "lua" -> lua_open(writer, text)
                       [] target = "py" -> py_open(writer, text)
    /\ UNCHANGED <<schema, order, pc, result, code, prev, instance, output,
                   target, context>>

\* close, or dedent in the Python writer
Close ==
    /\ Len(writer.buf) < MaxLines
    /\ writer' = CASE target = "js" -> close(writer)
                    [] target = "lua" -> lua_close(writer, "end")
                    [] target = "py" -> py_dedent(writer)
    /\ UNCHANGED <<schema, order, pc, result, code, prev, instance, output,
                   target, context>>

CloseOpen ==
    /\ Len(writer.buf) < MaxLines
    /\ \E text \in WriterTexts :
           writer' = CASE target = "js" -> close_open(writer, text)
                       [] target = "lua" -> lua_close_open(writer, text)
                       [] target = "py" -> py_close_open(writer, text)
    /\ UNCHANGED <<schema, order, pc, result, code, prev, instance, output,
                   target, context>>

NextW == Line \/ Open \/ Close \/ CloseOpen

SpecW == InitW /\ [][NextW]_vars

(***************************************************************************)
(* The type conditions of the JavaScript and Rust back ends, each applied  *)
(* to a scalar.  The condition is held in code, its value in output.       *)
(***************************************************************************)
\* the numbers on either side of every bound of the six integer types
BoundaryNumbers ==
    {JNum(n) : n \in {-32769, -32768, -129, -128, -1, 0, 1, 127, 128, 255, 256,
                      32767, 32768, 65535, 65536}}
    \cup {JNumber(-32769, 65535, FALSE), JNumber(-32768, 0, FALSE),
          JNumber(32767, 65535, FALSE), JNumber(32768, 0, FALSE),
          JNumber(65535, 65535, FALSE), JNumber(65536, 0, FALSE)}
    \cup {JNumber(0, 0, TRUE), JNumber(0, 127, TRUE), JNumber(-1, 65535, TRUE),
          JNumber(65535, 65535, TRUE)}

TypedValues ==
    BoundaryNumbers
    \cup {JNull, JBool(TRUE), JStr("a"), JStr("1"), JStr("1985-04-12T23:20:50Z"),
          JArr(<<JNum(1)>>), EmptyObj, O("a", JNum(1))}

\* the strings is_rfc3339 accepts
RsTimestamps == {"1985-04-12T23:20:50Z"}

\* one conjunct of the closure, on the f64 n
RsHolds(q, n) ==
    CASE q.p = "fract_zero" -> ~n.half
      [] q.p = "ge" -> ~LessThan(n, q.k)
      [] q.p = "le" -> ~LessThan(q.k, n)
      [] q.p = "is_finite" -> TRUE

\* Value::as_f64 is Some for a number and None for everything else
RsCondOn(c, v) ==
    CASE c.c = "not_is" -> v.t # c.ty
      [] c.c = "not_is_rfc3339" -> ~(v.t = "str" /\ v.s \in RsTimestamps)
      [] c.c = "not_map_or" ->
            ~(IF v.t = "num" THEN \A i \in 1..Len(c.conj) : RsHolds(c.conj[i], v)
              ELSE FALSE)

ValPath == <<[var |-> "v"]>>

InitT ==
    /\ schema \in {TypeOf_(kw) : kw \in TypeKeywords}
    /\ order = KeyOrder
    /\ pc = "start"
    /\ result = NotRun
    /\ code = NoCode
    /\ prev = NoCode
    /\ instance \in TypedValues
    /\ output = NoOutput
    /\ target \in {"js", "rs"}
    /\ writer = NewWriter
    /\ context = RootContext

TypeCondition ==
    /\ pc = "start"
    /\ code' = <<IF target = "js" THEN type_condition(schema.o["type"].s, ValPath)
                 ELSE rs_type_condition(schema.o["type"].s, ValPath)>>
    /\ pc' = "emitted"
    /\ UNCHANGED <<schema, order, result, prev, instance, output, target, writer,
                   context>>

\* the value of the condition with v bound to the instance
Evaluate ==
    /\ pc = "emitted"
    /\ output' = IF target = "js" THEN CondOn(code[1], instance)
                 ELSE Value(RsCondOn(code[1], instance))
    /\ pc' = "done"
    /\ UNCHANGED <<schema, order, result, code, prev, instance, target, writer,
                   context>>

NextT == TypeCondition \/ Evaluate

SpecT == InitT /\ [][NextT]_vars

(***************************************************************************)
(* RFC 8927 section 2: the correct schemas, and the AST a correct schema   *)
(* denotes.  Both are written from the RFC, not from the compiler.         *)
(***************************************************************************)
Done == pc = "compiled"

SchemaKeys ==
    {"definitions", "nullable", "metadata", "ref", "type", "enum", "elements",
     "values", "discriminator", "mapping", "properties", "optionalProperties",
     "additionalProperties"}

\* the forms whose keywords the object carries
FormsPresent(o) ==
    ({"ref", "type", "enum", "elements", "values", "discriminator"} \cap DOMAIN o)
    \cup (IF {"properties", "optionalProperties"} \cap DOMAIN o # {}
          THEN {"properties"} ELSE {})

IsTrue(o, k) == k \in DOMAIN o /\ o[k].t = "bool" /\ o[k].b

\* the keys of the object member k, none when k is absent
KeysOf(o, k) == IF k \in DOMAIN o /\ o[k].t = "obj" THEN DOMAIN o[k].o ELSE {}

DistinctStrings(arr) ==
    /\ \A i \in 1..Len(arr) : arr[i].t = "str"
    /\ \A i, j \in 1..Len(arr) : i # j => arr[i] # arr[j]

RECURSIVE ValidSchema(_, _, _)
\* the value of the form keyword(s) of o is well-formed
ValidForm(o, names) ==
    LET forms == FormsPresent(o)
    IN  /\ Cardinality(forms) <= 1
        /\ "ref" \in forms => o["ref"].t = "str" /\ o["ref"].s \in names
        /\ "type" \in forms => o["type"].t = "str" /\ o["type"].s \in TypeKeywords
        /\ "enum" \in forms =>
               /\ o["enum"].t = "arr"
               /\ Len(o["enum"].a) > 0
               /\ DistinctStrings(o["enum"].a)
        /\ "elements" \in forms => ValidSchema(o["elements"], FALSE, names)
        /\ "values" \in forms => ValidSchema(o["values"], FALSE, names)
        /\ "properties" \in forms =>
               /\ \A k \in {"properties", "optionalProperties"} \cap DOMAIN o :
                      /\ o[k].t = "obj"
                      /\ \A x \in DOMAIN o[k].o : ValidSchema(o[k].o[x], FALSE, names)
               /\ KeysOf(o, "properties") \cap KeysOf(o, "optionalProperties") = {}
        /\ "discriminator" \in forms =>
               /\ o["discriminator"].t = "str"
               /\ "mapping" \in DOMAIN o
               /\ o["mapping"].t = "obj"
               /\ \A x \in DOMAIN o["mapping"].o :
                      LET v == o["mapping"].o[x]
                      IN  /\ ValidSchema(v, FALSE, names)
                          /\ FormsPresent(v.o) = {"properties"}
                          /\ ~IsTrue(v.o, "nullable")
                          /\ o["discriminator"].s \notin
                                 KeysOf(v.o, "properties") \cup KeysOf(v.o, "optionalProperties")

ValidSchema(json, isRoot, names) ==
    /\ json.t = "obj"
    /\ DOMAIN json.o \subseteq SchemaKeys
    /\ "definitions" \in DOMAIN json.o =>
           /\ isRoot
           /\ json.o["definitions"].t = "obj"
           /\ \A k \in DOMAIN json.o["definitions"].o :
                  ValidSchema(json.o["definitions"].o[k], FALSE, names)
    /\ "nullable" \in DOMAIN json.o => json.o["nullable"].t = "bool"
    /\ "metadata" \in DOMAIN json.o => json.o["metadata"].t = "obj"
    /\ "additionalProperties" \in DOMAIN json.o =>
           /\ "properties" \in FormsPresent(json.o)
           /\ json.o["additionalProperties"].t = "bool"
    /\ "mapping" \in DOMAIN json.o => "discriminator" \in DOMAIN json.o
    /\ ValidForm(json.o, names)

\* the names the root declares
RootDefKeys == IF schema.t = "obj" THEN KeysOf(schema.o, "definitions") ELSE {}

ValidDoc == ValidSchema(schema, TRUE, RootDefKeys)

\* the definitions of the root are absent or correct
DefsValid ==
    /\ schema.t = "obj"
    /\ "definitions" \in DOMAIN schema.o =>
           /\ schema.o["definitions"].t = "obj"
           /\ \A k \in RootDefKeys :
                  ValidSchema(schema.o["definitions"].o[k], FALSE, RootDefKeys)

\* the AST variant of a form name
KindOf(f) ==
    CASE f = "ref" -> "Ref" [] f = "type" -> "Type" [] f = "enum" -> "Enum"
      [] f = "elements" -> "Elements" [] f = "values" -> "Values"
      [] f = "discriminator" -> "Discriminator" [] f = "properties" -> "Properties"

\* the AST a correct schema denotes
RECURSIVE AstOf(_)
AstOfMap(o, k) == [x \in KeysOf(o, k) |-> AstOf(o[k].o[x])]

AstOfForm(o) ==
    LET forms == FormsPresent(o)
    IN  IF "ref" \in forms THEN Ref(o["ref"].s)
        ELSE IF "type" \in forms THEN Type(o["type"].s)
        ELSE IF "enum" \in forms
        THEN Enum([i \in 1..Len(o["enum"].a) |-> o["enum"].a[i].s])
        ELSE IF "elements" \in forms THEN Elements(AstOf(o["elements"]))
        ELSE IF "values" \in forms THEN Values(AstOf(o["values"]))
        ELSE IF "properties" \in forms
        THEN Properties(AstOfMap(o, "properties"), AstOfMap(o, "optionalProperties"),
                        IsTrue(o, "additionalProperties"))
        ELSE IF "discriminator" \in forms
        THEN Discriminator(o["discriminator"].s, AstOfMap(o, "mapping"))
        ELSE Empty

AstOf(json) ==
    IF IsTrue(json.o, "nullable") THEN Nullable(AstOfForm(json.o)) ELSE AstOfForm(json.o)

\* the node below the nullable wrapper, if any
FormNode(n) == IF n.kind = "Nullable" THEN n.inner ELSE n

\* every node of an AST
RECURSIVE SubNodes(_)
SubNodes(n) ==
    {n} \cup
    CASE n.kind \in {"Elements", "Values"} -> SubNodes(n.schema)
      [] n.kind = "Nullable" -> SubNodes(n.inner)
      [] n.kind = "Properties" ->
            UNION ({SubNodes(n.required[k]) : k \in DOMAIN n.required}
                   \cup {SubNodes(n.optional[k]) : k \in DOMAIN n.optional})
      [] n.kind = "Discriminator" ->
            UNION {SubNodes(n.mapping[k]) : k \in DOMAIN n.mapping}
      [] OTHER -> {}

\* every node of a CompiledSchema
AllNodes(r) == SubNodes(r.root) \cup UNION {SubNodes(r.definitions[k]) : k \in DOMAIN r.definitions}

(***************************************************************************)
(* RFC 8927 section 3.3: the standard errors of an instance against a      *)
(* correct schema, as pairs of JSON Pointers (RFC 6901) kept as token      *)
(* sequences.                                                              *)
(***************************************************************************)
\* a schema keyword, a member name of the schema or instance, an array index
Word(w) == [word |-> w]
Key(k) == [key |-> k]
Index(n) == [idx |-> n]

\* RFC 6901 section 3
Escape6901(c) == CASE c = "~" -> "~0" [] c = "/" -> "~1" [] OTHER -> c

Token(t) ==
    IF "idx" \in DOMAIN t THEN ToString(t.idx)
    ELSE IF "word" \in DOMAIN t THEN t.word
    ELSE Join([i \in 1..Len(Chars[t.key]) |-> Escape6901(Chars[t.key][i])])

RECURSIVE Pointer(_)
Pointer(tokens) ==
    IF tokens = <<>> THEN "" ELSE "/" \o Token(Head(tokens)) \o Pointer(Tail(tokens))

\* the strings of the instance universe that are RFC 3339 timestamps
Rfc3339 == {"1985-04-12T23:20:50Z"}

InRange(v, lo, hi) == v.t = "num" /\ ~v.half /\ ~LessThan(v, lo) /\ ~LessThan(hi, v)

\* RFC 8927 section 3.3.3, table 2
RfcTypeOk(kw, v) ==
    CASE kw = "boolean" -> v.t = "bool"
      [] kw = "string" -> v.t = "str"
      [] kw = "timestamp" -> v.t = "str" /\ v.s \in Rfc3339
      [] kw \in {"float32", "float64"} -> v.t = "num"
      [] kw = "int8" -> InRange(v, JNum(-128), JNum(127))
      [] kw = "uint8" -> InRange(v, JNum(0), JNum(255))
      [] kw = "int16" -> InRange(v, JNum(-32768), JNum(32767))
      [] kw = "uint16" -> InRange(v, JNum(0), JNum(65535))
      [] kw = "int32" ->
            InRange(v, JNumber(-32768, 0, FALSE), JNumber(32767, 65535, FALSE))
      [] kw = "uint32" -> InRange(v, JNum(0), JNumber(65535, 65535, FALSE))

Members(o, k) == IF k \in DOMAIN o THEN o[k].o ELSE EmptyMap

RECURSIVE RfcErrors(_, _, _, _, _, _)
RfcErrors(root, s, inst, ip, sp, tag) ==
    LET o == s.o
    IN  IF IsTrue(o, "nullable") /\ inst = JNull THEN {}
        ELSE IF "ref" \in DOMAIN o
        THEN RfcErrors(root, root.o["definitions"].o[o["ref"].s], inst, ip,
                       <<Word("definitions"), Key(o["ref"].s)>>, {})
        ELSE IF "type" \in DOMAIN o
        THEN IF RfcTypeOk(o["type"].s, inst) THEN {}
             ELSE {<<ip, Append(sp, Word("type"))>>}
        ELSE IF "enum" \in DOMAIN o
        THEN IF inst.t = "str" /\ \E i \in 1..Len(o["enum"].a) : o["enum"].a[i] = inst
             THEN {}
             ELSE {<<ip, Append(sp, Word("enum"))>>}
        ELSE IF "elements" \in DOMAIN o
        THEN IF inst.t # "arr" THEN {<<ip, Append(sp, Word("elements"))>>}
             ELSE UNION {RfcErrors(root, o["elements"], inst.a[i],
                                   Append(ip, Index(i - 1)),
                                   Append(sp, Word("elements")), {}) :
                            i \in 1..Len(inst.a)}
        ELSE IF "values" \in DOMAIN o
        THEN IF inst.t # "obj" THEN {<<ip, Append(sp, Word("values"))>>}
             ELSE UNION {RfcErrors(root, o["values"], inst.o[k], Append(ip, Key(k)),
                                   Append(sp, Word("values")), {}) :
                            k \in DOMAIN inst.o}
        ELSE IF {"properties", "optionalProperties"} \cap DOMAIN o # {}
        THEN LET req == Members(o, "properties")
                 opt == Members(o, "optionalProperties")
                 guard == IF "properties" \in DOMAIN o THEN "properties"
                          ELSE "optionalProperties"
                 Below(m, w) ==
                     UNION {RfcErrors(root, m[k], inst.o[k], Append(ip, Key(k)),
                                      sp \o <<Word(w), Key(k)>>, {}) :
                               k \in DOMAIN m \cap DOMAIN inst.o}
             IN  IF inst.t # "obj" THEN {<<ip, Append(sp, Word(guard))>>}
                 ELSE {<<ip, sp \o <<Word("properties"), Key(k)>>>> :
                          k \in DOMAIN req \ DOMAIN inst.o}
                      \cup Below(req, "properties")
                      \cup Below(opt, "optionalProperties")
                      \cup (IF IsTrue(o, "additionalProperties") THEN {}
                            ELSE {<<Append(ip, Key(k)), sp>> :
                                     k \in DOMAIN inst.o
                                           \ (DOMAIN req \cup DOMAIN opt \cup tag)})
        ELSE IF "discriminator" \in DOMAIN o
        THEN LET t == o["discriminator"].s
             IN  IF inst.t # "obj" \/ t \notin DOMAIN inst.o
                 THEN {<<ip, Append(sp, Word("discriminator"))>>}
                 ELSE IF inst.o[t].t # "str"
                 THEN {<<Append(ip, Key(t)), Append(sp, Word("discriminator"))>>}
                 ELSE IF inst.o[t].s \notin DOMAIN o["mapping"].o
                 THEN {<<Append(ip, Key(t)), Append(sp, Word("mapping"))>>}
                 ELSE RfcErrors(root, o["mapping"].o[inst.o[t].s], inst, ip,
                                sp \o <<Word("mapping"), Key(inst.o[t].s)>>, {t})
        ELSE {}

\* a definition that is reached from itself through ref alone
RECURSIVE Chases(_, _, _)
Chases(defs, d, fuel) ==
    IF fuel = 0 THEN TRUE
    ELSE IF "ref" \in DOMAIN defs[d].o THEN Chases(defs, defs[d].o["ref"].s, fuel - 1)
    ELSE FALSE

RefLoop ==
    LET defs == Members(schema.o, "definitions")
    IN  \E d \in DOMAIN defs : Chases(defs, d, Cardinality(DOMAIN defs) + 1)

\* the errors RFC 8927 prescribes for schema and instance
Prescribed ==
    {<<Pointer(x[1]), Pointer(x[2])>> :
        x \in RfcErrors(schema, schema, instance, <<>>, <<>>, {})}

\* the errors validate returned
Returned == {output.errs[i] : i \in 1..Len(output.errs)}

(***************************************************************************)
(* Properties of the generated validator                                   *)
(***************************************************************************)
\* C1: for every schema that compile accepts (and the RFC defines) and every
\* instance, validate returns, and the set of (instancePath, schemaPath)
\* pairs it returns is the error set RFC 8927 prescribes; so it is empty
\* exactly when the instance is valid.
ValidateMatchesRfc ==
    (pc = "validated" /\ ValidDoc /\ ~RefLoop) =>
        /\ output.thrown = ""
        /\ Returned = Prescribed

\* a Properties form below a Values form at loop depth 0: both loops declare
\* k, the inner head reads instance[k] before its own k is initialised, and
\* validate throws on an instance that is valid
ShadowedLoopKey ==
    /\ pc = "validated"
    /\ schema = O("values", O("properties", O("a", EmptyObj)))
    /\ instance = O("a", O("a", JNum(1)))
    /\ Prescribed = {}
    /\ output.thrown = "ReferenceError"

\* "properties": {} against a non-object: the guard reports the keyword
\* optionalProperties, which the schema does not have
EmptyPropertiesGuard ==
    /\ pc = "validated"
    /\ schema = O("properties", EmptyObj)
    /\ instance = JNum(1)
    /\ output.thrown = ""
    /\ Returned = {<<"", "/optionalProperties">>}
    /\ Prescribed = {<<"", "/properties">>}

\* a required key that every object inherits is never reported missing
InheritedKey ==
    /\ pc = "validated"
    /\ schema = O("properties", O("constructor", EmptyObj))
    /\ instance = EmptyObj
    /\ output.thrown = ""
    /\ Returned = {}
    /\ Prescribed = {<<"", "/properties/constructor">>}

\* apart from these three cases validate returns what the RFC prescribes
RECURSIVE Mentions(_, _)
Mentions(json, key) ==
    \/ json.t = "obj" /\ (key \in DOMAIN json.o
                           \/ \E k \in DOMAIN json.o : Mentions(json.o[k], key))
    \/ json.t = "arr" /\ \E i \in 1..Len(json.a) : Mentions(json.a[i], key)

RECURSIVE HasEmptyProperties(_)
HasEmptyProperties(json) ==
    /\ json.t = "obj"
    /\ \/ "properties" \in DOMAIN json.o /\ json.o["properties"] = EmptyObj
       \/ \E k \in DOMAIN json.o : HasEmptyProperties(json.o[k])

\* a discriminator whose tag is a member every object inherits
RECURSIVE TagInherited(_)
TagInherited(json) ==
    /\ json.t = "obj"
    /\ \/ /\ "discriminator" \in DOMAIN json.o
          /\ json.o["discriminator"].t = "str"
          /\ json.o["discriminator"].s \in ProtoKeys
       \/ \E k \in DOMAIN json.o : TagInherited(json.o[k])

\* a member name that RFC 6901 writes with an escape
EscapedKeys == {"a/b", "m~n"}

ValidateMatchesRfcElsewhere ==
    (/\ pc = "validated" /\ ValidDoc /\ ~RefLoop
     /\ ~HasEmptyProperties(schema) /\ ~Mentions(schema, "constructor")
     /\ ~TagInherited(schema)
     /\ \A k \in EscapedKeys : ~Mentions(schema, k) /\ ~Mentions(instance, k)) =>
        /\ output.thrown \in {"", "ReferenceError"}
        /\ output.thrown = "" => Returned = Prescribed

\* C11: emission is deterministic.  A second run over the same document,
\* with the keys of definitions, properties, optionalProperties and mapping
\* written in any order (the same order included), compiles again and emits
\* exactly the text of the first run.
EmitDeterministic ==
    prev # NoCode =>
        /\ pc = "compiled" => result.ok
        /\ pc = "emitted" => code = prev

\* a second run in another key order over a schema with two definitions
EmitDeterministicWitness ==
    /\ pc = "emitted"
    /\ prev # NoCode
    /\ order = Reverse(KeyOrder)
    /\ Cardinality(DOMAIN result.definitions) = 2
    /\ code = prev

\* C12: for every schema that compile accepts, a definition that refers to
\* itself through ref alone included, and every instance, the validate call
\* returns its error list: it does not raise and does not recurse for ever.
ValidateReturns == pc = "validated" => output.thrown = ""

\* validate_a calls validate_a with the arguments it was called with
RefLoopOverflows ==
    /\ pc = "validated"
    /\ schema = With(O("definitions", O("a", O("ref", JStr("a")))), O("ref", JStr("a")))
    /\ instance = JNull
    /\ result.ok
    /\ output.thrown = "RangeError"

\* without a ref-only loop and without the shadowed loop key, validate returns
ValidateReturnsElsewhere ==
    (pc = "validated" /\ ~RefLoop /\ schema \notin CollidingNamesDocs) =>
        output.thrown \in {"", "ReferenceError"}

\* every path into a JSON document, as pointer tokens
RECURSIVE PathsIn(_)
PathsIn(json) ==
    {<<>>} \cup (IF json.t = "obj"
                 THEN UNION {{<<Word(k)>> \o t : t \in PathsIn(json.o[k])} :
                                k \in DOMAIN json.o}
                 ELSE {})

\* the schema paths that lie inside the definition d
PathsOfDefinition(d) ==
    {"/definitions/" \o d \o Pointer(t) :
        t \in PathsIn(schema.o["definitions"].o[d])}

\* C13: an error pushed while a definition's function runs has a schemaPath
\* that is "/definitions/<name>" of that (innermost) definition followed by a
\* path inside that definition: nothing of the caller's schema path is in
\* it, so its length is bounded by the schema alone.
SchemaPathAnchored ==
    pc = "validated" =>
        \A i \in 1..Len(output.errs) :
            \A d \in DOMAIN result.definitions :
                output.where[i] = def_fn_name(d) =>
                    output.errs[i][2] \in PathsOfDefinition(d)

\* definition a, an array of a, entered from itself two levels down
SchemaPathAnchoredWitness ==
    /\ pc = "validated"
    /\ schema = With(O("definitions", O("a", O("elements", O("ref", JStr("a"))))),
                     O("elements", O("ref", JStr("a"))))
    /\ instance = JArr(<<JArr(<<JNum(1)>>)>>)
    /\ output.where = <<"validate_a">>
    /\ output.errs = <<<<"/0/0", "/definitions/a/elements">>>>

\* definitions a and b that call each other
MutualRecursionReached ==
    /\ pc = "validated"
    /\ Cardinality(DOMAIN result.definitions) = 2
    /\ \E i \in 1..Len(output.errs) :
           /\ output.where[i] = "validate_a"
           /\ output.errs[i] = <<"/0/a", "/definitions/a/elements">>

\* the pointers to the values the RFC reports for schema and instance
OffendingPointers == {x[1] : x \in Prescribed}

\* C14: every instancePath that validate returns is the RFC 6901 pointer to
\* an offending value of the instance, also when a member name on the way
\* contains '/' or '~'; the root is the empty string.
InstancePathResolves ==
    (pc = "validated" /\ ValidDoc /\ ~RefLoop /\ output.thrown = "") =>
        \A i \in 1..Len(output.errs) : output.errs[i][1] \in OffendingPointers

\* a Values entry whose key contains '/'
UnescapedSlash ==
    /\ pc = "validated"
    /\ schema = O("values", TypeOf_("string"))
    /\ instance = O("a/b", JNum(1))
    /\ Returned = {<<"/a/b", "/values/type">>}
    /\ Prescribed = {<<"/a~1b", "/values/type">>}

\* a rejected additional property whose key contains '~'
UnescapedTilde ==
    /\ pc = "validated"
    /\ schema = O("optionalProperties", O("a", EmptyObj))
    /\ instance = O("m~n", JNum(1))
    /\ Returned = {<<"/m~n", "">>}
    /\ Prescribed = {<<"/m~0n", "">>}

\* a declared property whose key contains '/'
UnescapedDeclaredKey ==
    /\ pc = "validated"
    /\ schema = O("properties", O("a/b", TypeOf_("string")))
    /\ instance = O("a/b", JNum(1))
    /\ Returned = {<<"/a/b", "/properties/a/b/type">>}
    /\ Prescribed = {<<"/a~1b", "/properties/a~1b/type">>}

\* with member names that need no escape, and apart from the inherited key
\* of C1, every instancePath is the pointer to an offending value
InstancePathResolvesElsewhere ==
    (/\ pc = "validated" /\ ValidDoc /\ ~RefLoop /\ output.thrown = ""
     /\ ~Mentions(schema, "constructor") /\ ~TagInherited(schema)
     /\ \A k \in EscapedKeys : ~Mentions(schema, k) /\ ~Mentions(instance, k)) =>
        \A i \in 1..Len(output.errs) : output.errs[i][1] \in OffendingPointers

\* the document's root is a Properties form
RootIsProperties == {"properties", "optionalProperties"} \cap DOMAIN schema.o # {}

Pointers(errors) == {<<Pointer(x[1]), Pointer(x[2])>> : x \in errors}

\* what the checks of the declared keys under keyword w owe for the
\* instance: a missing required key, or the errors of the key's value
DeclaredErrors(w) ==
    LET m == Members(schema.o, w)
    IN  Pointers(
            (IF w = "properties"
             THEN {<<<<>>, <<Word(w), Key(k)>>>> : k \in DOMAIN m \ DOMAIN instance.o}
             ELSE {})
            \cup UNION {RfcErrors(schema, m[k], instance.o[k], <<Key(k)>>,
                                  <<Word(w), Key(k)>>, {}) :
                           k \in DOMAIN m \cap DOMAIN instance.o})

\* what the scan for undeclared keys owes
UndeclaredErrors ==
    IF IsTrue(schema.o, "additionalProperties") THEN {}
    ELSE Pointers({<<<<Key(k)>>, <<>>>> :
                      k \in DOMAIN instance.o
                            \ (DOMAIN Members(schema.o, "properties")
                               \cup DOMAIN Members(schema.o, "optionalProperties"))})

PhaseOf(err) ==
    IF err \in DeclaredErrors("properties") THEN 1
    ELSE IF err \in DeclaredErrors("optionalProperties") THEN 2
    ELSE 3

\* C15: for a Properties node and an object, the required keys, the optional
\* keys and the scan for undeclared keys are checked in this order and none
\* is skipped: every missing required key, every invalid value of a declared
\* key and every undeclared key has its error in the one list returned.
PropertiesPhasesAllRun ==
    (pc = "validated" /\ ValidDoc /\ RootIsProperties /\ instance.t = "obj") =>
        /\ output.thrown = ""
        /\ Returned = DeclaredErrors("properties")
                         \cup DeclaredErrors("optionalProperties")
                         \cup UndeclaredErrors
        /\ \A i, j \in 1..Len(output.errs) :
               i < j => PhaseOf(output.errs[i]) <= PhaseOf(output.errs[j])

\* the required key constructor is missing and no error says so, while the
\* scan reports the undeclared key
MissingKeyUnreported ==
    /\ pc = "validated"
    /\ schema = O("properties", O("constructor", EmptyObj))
    /\ instance = O("b", JNum(1))
    /\ output.errs = <<<<"/b", "">>>>
    /\ DeclaredErrors("properties") = {<<"", "/properties/constructor">>}

\* with keys that no object inherits and that need no escape, the three
\* phases all run, in order
PropertiesPhasesAllRunElsewhere ==
    (/\ pc = "validated" /\ ValidDoc /\ RootIsProperties /\ instance.t = "obj"
     /\ ~Mentions(schema, "constructor")
     /\ \A k \in EscapedKeys : ~Mentions(schema, k) /\ ~Mentions(instance, k)) =>
        /\ output.thrown = ""
        /\ Returned = DeclaredErrors("properties")
                         \cup DeclaredErrors("optionalProperties")
                         \cup UndeclaredErrors
        /\ \A i, j \in 1..Len(output.errs) :
               i < j => PhaseOf(output.errs[i]) <= PhaseOf(output.errs[j])

\* a missing required key and an invalid value under another required key
TwoRequiredErrors ==
    /\ pc = "validated"
    /\ schema = With(O("properties", JObj(("a" :> TypeOf_("string"))
                                           @@ ("b" :> TypeOf_("uint8")))),
                     O("optionalProperties", JObj(("p" :> TypeOf_("uint8"))
                                                   @@ ("q" :> TypeOf_("string")))))
    /\ instance = O("a", JNum(1))
    /\ output.errs = <<<<"/a", "/properties/a/type">>, <<"", "/properties/b">>>>

\* one error of each phase, in the order of the phases
ThreePhasesReached ==
    /\ pc = "validated"
    /\ schema = Scenario3Doc
    /\ instance = Scenario3Instance
    /\ Len(output.errs) = 3
    /\ \A i \in 1..3 : PhaseOf(output.errs[i]) = i

\* the keys of the instance that the root Properties form does not declare
UndeclaredKeys ==
    DOMAIN instance.o \ (DOMAIN Members(schema.o, "properties")
                         \cup DOMAIN Members(schema.o, "optionalProperties"))

\* the keyword the object guard of the root Properties form reports
GuardKeyword ==
    IF DOMAIN Members(schema.o, "properties") # {} THEN "/properties"
    ELSE "/optionalProperties"

\* C16 as stated: in scenario 3 validate returns the value errors of name and
\* age and, for the undeclared key x, the error (/x, /properties); an
\* undeclared key k is reported as (/k, /properties), or
\* (/k, /optionalProperties) when only optional properties are declared.
UndeclaredKeyAtKeyword ==
    /\ (pc = "validated" /\ schema = Scenario3Doc /\ instance = Scenario3Instance) =>
           /\ Len(output.errs) = 3
           /\ Returned = {<<"/name", "/properties/name/type">>,
                          <<"/age", "/optionalProperties/age/type">>,
                          <<"/x", "/properties">>}
    /\ (/\ pc = "validated" /\ ValidDoc /\ RootIsProperties /\ instance.t = "obj"
        /\ ~IsTrue(schema.o, "additionalProperties")) =>
           \A k \in UndeclaredKeys \ EscapedKeys :
               <<Pointer(<<Key(k)>>), GuardKeyword>> \in Returned

\* C16: in scenario 3 validate returns exactly three errors: the value errors
\* of name and age and, for the undeclared key x, (/x, "").  An undeclared
\* key k of the root object is reported once, with instancePath /k and the
\* schemaPath of the Properties form itself (no keyword appended), whether
\* required or only optional properties are declared.
UndeclaredKeyAtForm ==
    /\ (pc = "validated" /\ schema = Scenario3Doc /\ instance = Scenario3Instance) =>
           /\ Len(output.errs) = 3
           /\ Returned = {<<"/name", "/properties/name/type">>,
                          <<"/age", "/optionalProperties/age/type">>,
                          <<"/x", "">>}
    /\ (/\ pc = "validated" /\ ValidDoc /\ RootIsProperties /\ instance.t = "obj"
        /\ ~IsTrue(schema.o, "additionalProperties")) =>
           \A k \in UndeclaredKeys \ EscapedKeys :
               /\ Cardinality({i \in 1..Len(output.errs) :
                                  output.errs[i][1] = Pointer(<<Key(k)>>)}) = 1
               /\ <<Pointer(<<Key(k)>>), "">> \in Returned

UndeclaredKeyAtFormWitness ==
    /\ pc = "validated"
    /\ schema = Scenario3Doc
    /\ instance = Scenario3Instance
    /\ output.errs[3] = <<"/x", "">>

\* an undeclared key where only optional properties are declared
UndeclaredKeyOptionalOnly ==
    /\ pc = "validated"
    /\ schema = O("optionalProperties", O("a", TypeOf_("string")))
    /\ instance = O("b", JNum(1))
    /\ output.errs = <<<<"/b", "">>>>

\* the document's root is a Discriminator form
RootIsDiscriminator == "discriminator" \in DOMAIN schema.o

\* what the Properties check of variant v owes for the instance, under the
\* schema path /mapping/v and with the tag t exempt from the scan
VariantErrors(t, v) ==
    Pointers(RfcErrors(schema, schema.o["mapping"].o[v], instance, <<>>,
                       <<Word("mapping"), Key(v)>>, {t}))

\* C17: the code of a Discriminator node takes exactly one branch.  A
\* non-object, or an object without the tag, gives the one error
\* (ip, sp/discriminator); a tag that is not a string the one error
\* (ip/tag, sp/discriminator); a tag naming a variant gives exactly the
\* errors of that variant's Properties check under sp/mapping/<variant>;
\* any other tag the one error (ip/tag, sp/mapping).
DiscriminatorOneBranch ==
    (pc = "validated" /\ ValidDoc /\ RootIsDiscriminator) =>
    LET t == schema.o["discriminator"].s
        mapping == schema.o["mapping"].o
    IN  /\ output.thrown = ""
        /\ IF instance.t # "obj" \/ t \notin DOMAIN instance.o
           THEN output.errs = <<<<"", "/discriminator">>>>
           ELSE IF instance.o[t].t # "str"
           THEN output.errs = <<<<Pointer(<<Key(t)>>), "/discriminator">>>>
           ELSE IF instance.o[t].s \in DOMAIN mapping
           THEN Returned = VariantErrors(t, instance.o[t].s)
           ELSE output.errs = <<<<Pointer(<<Key(t)>>), "/mapping">>>>

\* an object without the tag constructor is taken down the branch for a tag
\* that is not a string
InheritedTagBranch ==
    /\ pc = "validated"
    /\ schema = InheritedTagDoc
    /\ instance = O("b", JNum(1))
    /\ output.errs = <<<<"/constructor", "/discriminator">>>>

\* with a tag and variant keys that no object inherits, exactly one branch
\* is taken
DiscriminatorOneBranchElsewhere ==
    (/\ pc = "validated" /\ ValidDoc /\ RootIsDiscriminator
     /\ ~Mentions(schema, "constructor") /\ ~TagInherited(schema)) =>
    LET t == schema.o["discriminator"].s
        mapping == schema.o["mapping"].o
    IN  /\ output.thrown = ""
        /\ IF instance.t # "obj" \/ t \notin DOMAIN instance.o
           THEN output.errs = <<<<"", "/discriminator">>>>
           ELSE IF instance.o[t].t # "str"
           THEN output.errs = <<<<Pointer(<<Key(t)>>), "/discriminator">>>>
           ELSE IF instance.o[t].s \in DOMAIN mapping
           THEN Returned = VariantErrors(t, instance.o[t].s)
           ELSE output.errs = <<<<Pointer(<<Key(t)>>), "/mapping">>>>

\* the five cases of the ladder
DiscriminatorBranchesReached(n) ==
    /\ pc = "validated"
    /\ RootIsDiscriminator
    /\ schema.o["discriminator"].s = "a"
    /\ CASE n = 1 -> instance.t # "obj"
         [] n = 2 -> instance.t = "obj" /\ "a" \notin DOMAIN instance.o
         [] n = 3 -> instance = O("a", JNum(1))
         [] n = 4 -> /\ instance.t = "obj" /\ "a" \in DOMAIN instance.o
                     /\ instance.o["a"] = JStr("p")
                     /\ Len(output.errs) > 1
         [] n = 5 -> instance = O("a", JStr("a"))

NonObjectBranch == DiscriminatorBranchesReached(1)
MissingTagBranch == DiscriminatorBranchesReached(2)
NonStringTagBranch == DiscriminatorBranchesReached(3)
VariantBranch == DiscriminatorBranchesReached(4)
UnknownTagBranch == DiscriminatorBranchesReached(5)

\* the Properties form s has the scan for undeclared keys
Scans(s) == ~IsTrue(s.o, "additionalProperties")

IsPropertiesForm(s) == {"properties", "optionalProperties"} \cap DOMAIN s.o # {}

\* the errors the scan of the Properties form s owes for the object inst at
\* instance path ip, with the node's schema path sp and the tag exempt
ScanErrors(s, inst, ip, sp, tag) ==
    IF ~Scans(s) THEN {}
    ELSE {<<ip \o "/" \o k, sp>> :
             k \in DOMAIN inst.o \ (DOMAIN Members(s.o, "properties")
                                    \cup DOMAIN Members(s.o, "optionalProperties")
                                    \cup tag)}

\* the text of validate loops over the keys of the root instance
ScanPresent ==
    \E i \in 1..Len(code) :
        /\ code[i].kind = "open"
        /\ code[i].text.h = "for in"
        /\ code[i].text.val = RootContext.val

ErrorsAt(sp) == {e \in Returned : e[2] = sp}

\* the scan of a Properties form at the root
RootScan ==
    (pc = "validated" /\ ValidDoc /\ RootIsProperties) =>
        /\ ScanPresent <=> Scans(schema)
        /\ instance.t = "obj" =>
               /\ output.thrown = ""
               /\ ErrorsAt("") = ScanErrors(schema, instance, "", "", {})

\* the scan of the variant that the tag of the instance selects
VariantScan ==
    (pc = "validated" /\ ValidDoc /\ RootIsDiscriminator /\ instance.t = "obj") =>
        LET t == schema.o["discriminator"].s
            mapping == schema.o["mapping"].o
        IN  (/\ t \in DOMAIN instance.o /\ instance.o[t].t = "str"
             /\ instance.o[t].s \in DOMAIN mapping) =>
                LET v == instance.o[t].s
                IN  /\ output.thrown = ""
                    /\ ErrorsAt("/mapping/" \o v)
                           = ScanErrors(mapping[v], instance, "", "/mapping/" \o v, {t})

\* the scan of a Properties form below the form w (elements or values), for
\* every member of the instance that is an object
NestedScan(w) ==
    (/\ pc = "validated" /\ ValidDoc /\ w \in DOMAIN schema.o
     /\ IsPropertiesForm(schema.o[w])) =>
        LET sp == "/" \o w
            owed == IF instance.t = "arr"
                    THEN UNION {ScanErrors(schema.o[w], instance.a[i],
                                           "/" \o ToString(i - 1), sp, {}) :
                                   i \in {j \in 1..Len(instance.a) :
                                             instance.a[j].t = "obj"}}
                    ELSE UNION {ScanErrors(schema.o[w], instance.o[k],
                                           "/" \o k, sp, {}) :
                                   k \in {j \in DOMAIN instance.o :
                                             instance.o[j].t = "obj"}}
        IN  instance.t = (IF w = "elements" THEN "arr" ELSE "obj") =>
                /\ output.thrown = ""
                /\ ErrorsAt(sp) = owed

\* C18: the scan for undeclared keys is emitted exactly when additional is
\* false, and it pushes an error for exactly the keys of the object that are
\* not a required key, not an optional key and not the tag of the enclosing
\* discriminator; the error has instancePath ip + "/" + key and the schema
\* path of the Properties node itself.
AdditionalScan ==
    RootScan /\ VariantScan /\ NestedScan("elements") /\ NestedScan("values")

\* below a Values form at the root the scan's loop head throws: the
\* undeclared key b is not reported
ScanThrows ==
    /\ pc = "validated"
    /\ schema = O("values", O("optionalProperties", O("a", EmptyObj)))
    /\ instance = O("a", O("b", JNum(1)))
    /\ output.thrown = "ReferenceError"
    /\ output.errs = <<>>

\* at the root, in a variant and below an Elements form the scan reports
\* exactly the undeclared keys
AdditionalScanElsewhere == RootScan /\ VariantScan /\ NestedScan("elements")

ScanAtRootReached ==
    /\ pc = "validated" /\ RootIsProperties /\ Scans(schema)
    /\ instance = JObj(("a" :> JStr("p")) @@ ("b" :> JStr("a")) @@ ("m" :> JNum(1)))
    /\ Cardinality(ErrorsAt("")) = 2

NoScanReached ==
    /\ pc = "validated" /\ RootIsProperties /\ ~Scans(schema)
    /\ instance = O("b", JNum(1))
    /\ ~ScanPresent

ScanInVariantReached ==
    /\ pc = "validated" /\ RootIsDiscriminator
    /\ instance = JObj(("a" :> JStr("p")) @@ ("b" :> JStr("a")) @@ ("m" :> JNum(1)))
    /\ ErrorsAt("/mapping/p") = {<<"/m", "/mapping/p">>}

ScanBelowElementsReached ==
    /\ pc = "validated"
    /\ schema = O("elements", O("properties", O("a", EmptyObj)))
    /\ instance = JArr(<<O("b", JNum(1))>>)
    /\ ErrorsAt("/elements") = {<<"/0/b", "/elements">>}

\* the keyword the object guard of the Properties form s reports
GuardOf(s) ==
    IF DOMAIN Members(s.o, "properties") # {} THEN "/properties"
    ELSE "/optionalProperties"

\* C19: for a Properties node and an instance that is not an object (null,
\* an array, a scalar) the generated code pushes exactly one error, at the
\* node's instance path, with schemaPath sp/properties when the node
\* declares a required property and sp/optionalProperties otherwise; no
\* per-key check runs.  Checked for the node at the root, below an Elements
\* form and in a definition (a null that an enclosing nullable accepts never
\* reaches the node).
PropertiesGuard ==
    /\ (/\ pc = "validated" /\ ValidDoc /\ RootIsProperties /\ instance.t # "obj"
        /\ ~(IsTrue(schema.o, "nullable") /\ instance = JNull)) =>
           /\ output.thrown = ""
           /\ output.errs = <<<<"", GuardOf(schema)>>>>
    /\ (/\ pc = "validated" /\ ValidDoc /\ "elements" \in DOMAIN schema.o
        /\ IsPropertiesForm(schema.o["elements"]) /\ instance.t = "arr"
        /\ \A i \in 1..Len(instance.a) : instance.a[i].t # "obj") =>
           /\ output.thrown = ""
           /\ output.errs = [i \in 1..Len(instance.a) |->
                                <<"/" \o ToString(i - 1),
                                  "/elements" \o GuardOf(schema.o["elements"])>>]
    /\ (/\ pc = "validated" /\ ValidDoc /\ "ref" \in DOMAIN schema.o
        /\ IsPropertiesForm(schema.o["definitions"].o[schema.o["ref"].s])
        /\ instance.t # "obj"
        /\ ~(IsTrue(schema.o, "nullable") /\ instance = JNull)) =>
           /\ output.thrown = ""
           /\ output.errs =
                  <<<<"", "/definitions/" \o schema.o["ref"].s
                          \o GuardOf(schema.o["definitions"].o[schema.o["ref"].s])>>>>

\* only optional properties are declared and the instance is an array
PropertiesGuardWitness ==
    /\ pc = "validated"
    /\ schema = O("optionalProperties", O("a", TypeOf_("string")))
    /\ instance = JArr(<<JStr("a")>>)
    /\ output.errs = <<<<"", "/optionalProperties">>>>

\* a required property is declared and the instance is null
GuardWithRequired ==
    /\ pc = "validated"
    /\ schema = Scenario3Doc
    /\ instance = JNull
    /\ output.errs = <<<<"", "/properties">>>>

\* the guard of a Properties form below an Elements form
GuardBelowElements ==
    /\ pc = "validated"
    /\ schema = O("elements", O("optionalProperties", O("a", EmptyObj)))
    /\ instance = JArr(<<JNum(1), JStr("a")>>)
    /\ output.errs = <<<<"/0", "/elements/optionalProperties">>,
                       <<"/1", "/elements/optionalProperties">>>>

\* the guard of a Properties form in a definition
GuardInDefinition ==
    /\ pc = "validated"
    /\ "ref" \in DOMAIN schema.o
    /\ instance = JNum(1)
    /\ output.errs = <<<<"", "/definitions/a/properties">>>>

\* the node with every Nullable(Empty) in it replaced by Empty
RECURSIVE WithoutNullableEmpty(_)
WithoutNullableEmpty(node) ==
    CASE node.kind = "Nullable" ->
            IF node.inner.kind = "Empty" THEN Empty
            ELSE Nullable(WithoutNullableEmpty(node.inner))
      [] node.kind \in {"Elements", "Values"} ->
            [node EXCEPT !.schema = WithoutNullableEmpty(node.schema)]
      [] node.kind = "Properties" ->
            [node EXCEPT
                !.required = [k \in DOMAIN node.required |->
                                 WithoutNullableEmpty(node.required[k])],
                !.optional = [k \in DOMAIN node.optional |->
                                 WithoutNullableEmpty(node.optional[k])]]
      [] node.kind = "Discriminator" ->
            [node EXCEPT
                !.mapping = [k \in DOMAIN node.mapping |->
                                WithoutNullableEmpty(node.mapping[k])]]
      [] OTHER -> node

\* Nullable(Empty) occurs in the node
HasNullableEmpty(node) == WithoutNullableEmpty(node) # node

\* C20: in every emission context Nullable(Empty) emits the text of Empty,
\* which is nothing: the module of a schema is the module of the schema with
\* every Nullable(Empty) replaced by Empty.  The schemas {"nullable": true}
\* and {} give the same module, and its validate returns no error for
\* every instance.
NullableEmptyIsEmpty ==
    /\ pc \in {"emitted", "validated"} =>
           code = emit([ok |-> TRUE,
                        root |-> WithoutNullableEmpty(result.root),
                        definitions |->
                            [d \in DOMAIN result.definitions |->
                                WithoutNullableEmpty(result.definitions[d])]])
    /\ (pc = "validated" /\ schema \in {Nullable_(EmptyObj), EmptyObj}) =>
           /\ code = emit(compile(EmptyObj))
           /\ code = emit(compile(Nullable_(EmptyObj)))
           /\ output.thrown = ""
           /\ output.errs = <<>>

NullableEmptyIsEmptyWitness ==
    /\ pc = "validated"
    /\ schema = Nullable_(EmptyObj)
    /\ result.root = Nullable(Empty)
    /\ instance = JNum(1)
    /\ output.errs = <<>>

\* Nullable(Empty) as the schema of a Values form and as a definition
NullableEmptyNested ==
    /\ pc = "emitted"
    /\ schema = O("values", Nullable_(EmptyObj))
    /\ result.root = Values(Nullable(Empty))

NullableEmptyDefinition ==
    /\ pc = "emitted"
    /\ schema = NullableEmptyDefinitionDoc
    /\ HasNullableEmpty(result.definitions["a"])

\* C21: the module declares one helper per definition, in lexicographic
\* order of the definition names and before validate; the helper of d is
\* named validate_ followed by d with every character that is not
\* alphanumeric or '_' replaced by '_'; the helpers have as many distinct
\* names as there are definitions, so the name a Ref calls is declared
\* once, by the definition the Ref names.
HelperPerDefinition ==
    pc \in {"emitted", "validated"} =>
        LET decls == Declarations(code, 1)
            names == SortedKeys(DOMAIN result.definitions)
            helpers == {decls[i].name : i \in 1..Len(decls) - 1}
        IN  /\ Len(decls) = Len(names) + 1
            /\ decls[Len(decls)].name = "validate"
            /\ \A i \in 1..Len(names) :
                   /\ decls[i].name = def_fn_name(names[i])
                   /\ \A j \in 1..Len(names) : i < j => Rank(names[i]) < Rank(names[j])
            /\ Cardinality(helpers) = Cardinality(DOMAIN result.definitions)
            /\ \A d \in DOMAIN result.definitions :
                   \A i \in 1..Len(decls) :
                       decls[i].name = def_fn_name(d) => names[i] = d

\* the definitions m_n and m~n both declare validate_m_n
HelperNamesCollide ==
    /\ pc = "emitted"
    /\ schema \in CollidingNamesDocs
    /\ DOMAIN result.definitions = {"m_n", "m~n"}
    /\ LET decls == Declarations(code, 1)
       IN  /\ Len(decls) = 3
           /\ decls[1].name = "validate_m_n"
           /\ decls[2].name = "validate_m_n"

\* the module with the two declarations of one name does not load
CollidingModuleRejected ==
    /\ pc = "validated"
    /\ schema \in CollidingNamesDocs
    /\ instance = JStr("a")
    /\ output.thrown = "SyntaxError"

\* definitions whose sanitized names differ have one helper each
HelperPerDefinitionElsewhere ==
    (pc \in {"emitted", "validated"} /\ schema \notin CollidingNamesDocs) =>
        LET decls == Declarations(code, 1)
            names == SortedKeys(DOMAIN result.definitions)
            helpers == {decls[i].name : i \in 1..Len(decls) - 1}
        IN  /\ Len(decls) = Len(names) + 1
            /\ decls[Len(decls)].name = "validate"
            /\ \A i \in 1..Len(names) :
                   /\ decls[i].name = def_fn_name(names[i])
                   /\ \A j \in 1..Len(names) : i < j => Rank(names[i]) < Rank(names[j])
            /\ Cardinality(helpers) = Cardinality(DOMAIN result.definitions)
            /\ \A d \in DOMAIN result.definitions :
                   \A i \in 1..Len(decls) :
                       decls[i].name = def_fn_name(d) => names[i] = d

\* two definitions, two helpers, in the order of their names
TwoHelpersReached ==
    /\ pc = "emitted"
    /\ DOMAIN result.definitions = {"a", "b"}
    /\ LET decls == Declarations(code, 1)
       IN  /\ Len(decls) = 3
           /\ decls[1].name = "validate_a"
           /\ decls[2].name = "validate_b"

\* the lines of the text that open a loop
LoopHeads ==
    {i \in 1..Len(code) :
        code[i].kind = "open" /\ code[i].text.h \in {"for", "for in"}}

\* line i lies in the body of the loop that line j opens
InsideLoop(i, j) == j < i /\ i < Closer(code, j + 1)

\* C22: in every function of the emitted module the variables of loops
\* nested in one another are pairwise distinct: no Elements loop, Values
\* loop or scan for undeclared keys declares the variable of a loop around
\* it.
LoopVariablesDistinct ==
    pc \in {"emitted", "validated"} =>
        \A i, j \in LoopHeads :
            InsideLoop(i, j) => code[i].text.var # code[j].text.var

\* the scan of a Properties form below a Values form at depth 0 declares k
\* inside the loop that declares k
ScanShadowsValuesKey ==
    /\ pc = "emitted"
    /\ schema = O("values", O("properties", O("a", EmptyObj)))
    /\ \E i, j \in LoopHeads :
           /\ InsideLoop(i, j)
           /\ code[j].text = [h |-> "for in", var |-> "k", val |-> <<Var("instance")>>]
           /\ code[i].text = [h |-> "for in", var |-> "k",
                              val |-> <<Var("instance"), Var("k")>>]

\* the node has a Properties form with the scan below a Values form that
\* was emitted at depth 0
RECURSIVE ScanBelowKey(_, _, _)
ScanBelowKey(node, depth, below) ==
    CASE node.kind = "Values" -> ScanBelowKey(node.schema, depth + 1, below \/ depth = 0)
      [] node.kind = "Elements" -> ScanBelowKey(node.schema, depth + 1, below)
      [] node.kind = "Nullable" -> ScanBelowKey(node.inner, depth, below)
      [] node.kind = "Properties" ->
            \/ below /\ ~node.additional
            \/ \E k \in DOMAIN node.required : ScanBelowKey(node.required[k], depth, below)
            \/ \E k \in DOMAIN node.optional : ScanBelowKey(node.optional[k], depth, below)
      [] node.kind = "Discriminator" ->
            \E k \in DOMAIN node.mapping : ScanBelowKey(node.mapping[k], depth, below)
      [] OTHER -> FALSE

\* apart from that case nested loops have distinct variables
LoopVariablesDistinctElsewhere ==
    (/\ pc \in {"emitted", "validated"}
     /\ ~ScanBelowKey(result.root, 0, FALSE)
     /\ \A d \in DOMAIN result.definitions :
            ~ScanBelowKey(result.definitions[d], 0, FALSE)) =>
        \A i, j \in LoopHeads :
            InsideLoop(i, j) => code[i].text.var # code[j].text.var

\* an Elements loop around a Values loop around an Elements loop
NestedLoopsReached ==
    /\ pc = "emitted"
    /\ \E i, j \in LoopHeads :
           /\ InsideLoop(i, j)
           /\ code[j].text.var = "i"
           /\ code[i].text.var = "k1"

\* a scan inside an Elements loop
ScanInsideElementsLoop ==
    /\ pc = "emitted"
    /\ \E i, j \in LoopHeads :
           /\ InsideLoop(i, j)
           /\ code[j].text.var = "i"
           /\ code[i].text.var = "k"

(***************************************************************************)
(* Properties of the emission context                                      *)
(***************************************************************************)
\* the target's string-literal escaping
Escape(t, k) == IF t = "js" THEN escape_js(k) ELSE escape_lua(k)

Last(seq) == seq[Len(seq)]

\* the step is the descent to key
RequiredPropOf(key) ==
    RequiredProp /\ context' = (IF target = "js" THEN required_prop(context, key)
                                ELSE lua_required_prop(context, key))

OptionalPropOf(key) ==
    OptionalProp /\ context' = (IF target = "js" THEN optional_prop(context, key)
                                ELSE lua_optional_prop(context, key))

DiscrimVariantOf(key) ==
    DiscrimVariant /\ context' = (IF target = "js" THEN discrim_variant(context, key)
                                  ELSE lua_discrim_variant(context, key))

\* the descent to key k put escape(k) into val, ip and sp
EmbedsEscaped(k, keyword, descends) ==
    /\ Last(context'.sp) = Lit(keyword, Escape(target, k))
    /\ descends => /\ Last(context'.val) = Lit("", Escape(target, k))
                    /\ Last(context'.ip) = Lit("/", Escape(target, k))

\* C23: for every key k, also one with a double quote, a backslash or a
\* newline, required_prop(k), optional_prop(k) and discrim_variant(k) of each
\* back-end's context embed the target's escape(k), not the raw key, in the
\* val, ip and sp expressions they return.
DescentEmbedsEscapedKey ==
    [][\A k \in ContextKeys :
          /\ RequiredPropOf(k) => EmbedsEscaped(k, "/properties/", TRUE)
          /\ OptionalPropOf(k) => EmbedsEscaped(k, "/optionalProperties/", TRUE)
          /\ DiscrimVariantOf(k) => EmbedsEscaped(k, "/mapping/", FALSE)]_vars

\* the JS context after required_prop of the key a"b: the raw key is in the
\* literals, which end at its quote
RawKeyInLiteral ==
    /\ target = "js"
    /\ context.val = <<Var("instance"), Lit("", "a\"b")>>
    /\ context.ip = <<Lit("", ""), Lit("/", "a\"b")>>
    /\ context.sp = <<Lit("", ""), Lit("/properties/", "a\"b")>>
    /\ escape_js("a\"b") = "a\\\"b"

\* the Lua context escapes every key, the JS context is right for the keys
\* that are their own escape
DescentEmbedsEscapedKeyElsewhere ==
    [][\A k \in ContextKeys :
          (target = "lua" \/ escape_js(k) = k) =>
              /\ RequiredPropOf(k) => EmbedsEscaped(k, "/properties/", TRUE)
              /\ OptionalPropOf(k) => EmbedsEscaped(k, "/optionalProperties/", TRUE)
              /\ DiscrimVariantOf(k) => EmbedsEscaped(k, "/mapping/", FALSE)]_vars

\* the Lua context after optional_prop of the key a"b
LuaKeyEscaped ==
    /\ target = "lua"
    /\ context.val = <<Var("v"), Lit("", "a\\\"b")>>
    /\ context.sp = <<Var("sp"), Lit("/optionalProperties/", "a\\\"b")>>

\* C26: every descent operator returns a context with the err of its
\* receiver; required_prop, optional_prop and discrim_variant keep the depth,
\* element and values_entry raise it by exactly one; discrim_variant keeps
\* val and ip.  (The operators take the receiver by shared reference and
\* build the result from its fields: the receiver itself is not written.)
DescentFrame ==
    [][/\ NextC => context'.err = context.err
       /\ (RequiredProp \/ OptionalProp \/ DiscrimVariant) =>
              context'.depth = context.depth
       /\ (Element \/ ValuesEntry) => context'.depth = context.depth + 1
       /\ DiscrimVariant => /\ context'.val = context.val
                             /\ context'.ip = context.ip]_vars

\* a variant below a Values entry below an element
DescentFrameWitness ==
    /\ target = "js"
    /\ context = discrim_variant(values_entry(element(RootContext, "i"), "k1"), "a")
    /\ context.depth = 2
    /\ context.err = RootContext.err

\* the same descents in the Lua context, from a definition
LuaDescentReached ==
    /\ target = "lua"
    /\ context = lua_required_prop(
                     lua_values_entry(lua_element(DefinitionContext, "i"), "k1"), "a")
    /\ context.depth = 2

(***************************************************************************)
(* Properties of the CodeWriter                                            *)
(***************************************************************************)
\* the call wrote a line
Wrote == Len(writer'.buf) = Len(writer.buf) + 1

\* the number of indent units before the text of the line just written
Written == writer'.buf[Len(writer'.buf)].indent

\* C24: for every sequence of line, open, close (dedent in Python) and
\* close_open calls: open raises the depth by exactly one; close lowers it
\* by one when it is positive and leaves it at zero otherwise; the depth is
\* never negative; every line written is indented by the depth at which it
\* is written (line and open: the depth before the call; close and
\* close_open: the depth after the decrement).
WriterDepth ==
    [][/\ writer'.depth >= 0
       /\ Open => writer'.depth = writer.depth + 1 /\ Wrote /\ Written = writer.depth
       /\ Line => writer'.depth = writer.depth /\ Wrote /\ Written = writer.depth
       /\ Close => /\ writer'.depth = (IF writer.depth > 0 THEN writer.depth - 1 ELSE 0)
                    /\ Wrote => Written = writer'.depth
                    /\ Wrote <=> target # "py"
       /\ CloseOpen => Wrote /\ Written = writer'.depth - 1]_vars

\* a close at depth zero after an open and a close
WriterDepthWitness ==
    /\ target = "js"
    /\ writer = close(close(open(NewWriter, "a")))
    /\ writer.depth = 0
    /\ writer.buf[3].indent = 0

\* a Python block ended by dedent
DedentReached ==
    /\ target = "py"
    /\ writer = py_line(py_dedent(py_open(NewWriter, "a")), "b")
    /\ writer.buf[2].indent = 0

\* C29 as stated: for every writer state, depth zero included, the depth
\* after close_open equals the depth before, and the continuation line is
\* one level shallower than the bodies on either side.
CloseOpenKeepsDepthAlways ==
    [][CloseOpen => /\ writer'.depth = writer.depth
                    /\ Written = writer.depth - 1
                    /\ Written = writer'.depth - 1]_vars

\* C25: for each integer type keyword and every JSON value, the condition of
\* the JavaScript back end and that of the Rust back end are both true exactly
\* when the value is not a number, is not an integer, or lies outside the
\* keyword's range; float32 and float64 yield the same condition.
IntegerRange ==
    [int8 |-> <<JNum(-128), JNum(127)>>,
     uint8 |-> <<JNum(0), JNum(255)>>,
     int16 |-> <<JNum(-32768), JNum(32767)>>,
     uint16 |-> <<JNum(0), JNum(65535)>>,
     int32 |-> <<JNumber(-32768, 0, FALSE), JNumber(32767, 65535, FALSE)>>,
     uint32 |-> <<JNum(0), JNumber(65535, 65535, FALSE)>>]

Keyword == schema.o["type"].s

FailsInteger(kw, v) ==
    \/ v.t # "num"
    \/ v.half
    \/ LessThan(v, IntegerRange[kw][1])
    \/ LessThan(IntegerRange[kw][2], v)

TypeConditionsAgree ==
    /\ pc = "done" /\ Keyword \in DOMAIN IntegerRange
            => output = Value(FailsInteger(Keyword, instance))
    /\ pc \in {"emitted", "done"} /\ Keyword \in {"float32", "float64"}
            => /\ type_condition("float32", ValPath) = type_condition("float64", ValPath)
               /\ rs_type_condition("float32", ValPath)
                      = rs_type_condition("float64", ValPath)
               /\ code[1] \in {type_condition("float32", ValPath),
                               rs_type_condition("float32", ValPath)}

\* a Rust uint32 condition has accepted 4294967295
TypeConditionsAgreeWitness ==
    /\ pc = "done"
    /\ target = "rs"
    /\ Keyword = "uint32"
    /\ instance = JNumber(65535, 65535, FALSE)
    /\ output = Value(FALSE)

\* a JavaScript int32 condition has refused -2147483649
BelowInt32Refused ==
    /\ pc = "done"
    /\ target = "js"
    /\ Keyword = "int32"
    /\ instance = JNumber(-32769, 65535, FALSE)
    /\ output = Value(TRUE)

\* a Rust int8 condition has refused 127.5
HalfRefused ==
    /\ pc = "done"
    /\ target = "rs"
    /\ Keyword = "int8"
    /\ instance = JNumber(0, 127, TRUE)
    /\ output = Value(TRUE)

\* the variant the tag of the instance selects, when the root is a
\* Discriminator form over an object whose tag names a variant
Selected ==
    LET t == schema.o["discriminator"].s
    IN  IF /\ pc = "validated" /\ ValidDoc /\ RootIsDiscriminator
           /\ instance.t = "obj" /\ t \in DOMAIN instance.o
           /\ instance.o[t].t = "str"
           /\ instance.o[t].s \in DOMAIN schema.o["mapping"].o
        THEN {instance.o[t].s}
        ELSE {}

\* the members of variant v, under keyword w, that are Properties forms
\* and whose value in the instance is an object
FormsBelow(v, w) ==
    {k \in DOMAIN Members(schema.o["mapping"].o[v].o, w) :
        /\ IsPropertiesForm(Members(schema.o["mapping"].o[v].o, w)[k])
        /\ k \in DOMAIN instance.o
        /\ instance.o[k].t = "obj"}

DeclaredTagBelowVariant ==
    /\ pc = "validated"
    /\ Selected = {"p"}
    /\ "b" \in FormsBelow("p", "properties")
    /\ "a" \in DOMAIN Members(schema.o["mapping"].o["p"].o["properties"].o["b"].o,
                              "optionalProperties")
    /\ instance = TagBelowVariantInstance
    /\ ErrorsAt("/mapping/p/properties/b") = {}

\* the writer of emit after its first n calls
WriterAfter(n) == Calls(NewWriter, EmitCalls(result), 1, n)

OpensFunction(c) ==
    c.op = "open" /\ "h" \in DOMAIN c.text /\ c.text.h = "function"

\* C28: the writer calls emit makes are balanced.  Every close and
\* close_open is made at depth at least one, so the clamp at zero is never
\* exercised; the depth is zero when each top-level function is opened and
\* zero when finish is called.
WriterCallsBalanced ==
    pc = "emitted" =>
        LET cs == EmitCalls(result)
        IN  /\ \A i \in 1..Len(cs) :
                   /\ cs[i].op \in {"close", "close_open"}
                          => WriterAfter(i - 1).depth >= 1
                   /\ OpensFunction(cs[i]) => WriterAfter(i - 1).depth = 0
            /\ WriterAfter(Len(cs)).depth = 0
            /\ code = finish(WriterAfter(Len(cs)))

\* a module of two functions, with a continuation line and a closing brace
\* inside a block
WriterCallsBalancedWitness ==
    /\ pc = "emitted"
    /\ Cardinality({i \in 1..Len(code) :
                       /\ code[i].kind = "open"
                       /\ "h" \in DOMAIN code[i].text
                       /\ code[i].text.h = "function"}) >= 2
    /\ \E i \in 1..Len(code) : code[i].kind = "close_open" /\ code[i].indent >= 1
    /\ \E i \in 1..Len(code) : code[i].kind = "close" /\ code[i].indent >= 2

\* blocks nested four deep
DeepBlocksReached ==
    /\ pc = "emitted"
    /\ \E i \in 1..Len(code) : code[i].indent >= 4

\* the definitions of the document whose body alone does not compile
InvalidDefinitions ==
    LET defs_obj == schema.o["definitions"].o
    IN  {k \in DOMAIN defs_obj :
            ~compile_node(defs_obj[k], FALSE, Placeholders(defs_obj)).ok}

\* the first of the names S in lexicographic order
FirstName(S) == CHOOSE k \in S : \A j \in S : Rank(k) <= Rank(j)

\* the failure of the root body alone, if it has one
RootFailure ==
    LET defs_obj == IF Has(schema.o, "definitions")
                    THEN schema.o["definitions"].o ELSE EmptyMap
    IN  compile_node(schema, FALSE, Placeholders(defs_obj))

\* C30: compile returns the first failure of a fixed traversal and nothing
\* else: the root must be an object, then definitions must be an object,
\* then the definition bodies are compiled in lexicographic order of name,
\* then the root body.  When a definition body and the root body are both
\* invalid the error is that of the lexicographically first invalid
\* definition, and no CompiledSchema is returned.
CompileFirstFailure ==
    pc = "compiled" =>
        /\ ~result.ok => DOMAIN result = {"ok", "err"}
        /\ IF ~IsObj(schema) THEN result = Err(NotAnObject)
           ELSE IF Has(schema.o, "definitions") /\ ~IsObj(schema.o["definitions"])
           THEN result = Err(DefinitionsNotObject)
           ELSE IF Has(schema.o, "definitions") /\ InvalidDefinitions # {}
           THEN LET defs_obj == schema.o["definitions"].o
                IN  result = compile_node(defs_obj[FirstName(InvalidDefinitions)],
                                          FALSE, Placeholders(defs_obj))
           ELSE IF ~RootFailure.ok THEN result = RootFailure
           ELSE result.ok

\* definitions a and b and the root body are invalid in three different
\* ways: the error is that of a
CompileFirstFailureWitness ==
    /\ pc = "compiled"
    /\ IsObj(schema)
    /\ Has(schema.o, "definitions") /\ IsObj(schema.o["definitions"])
    /\ InvalidDefinitions = {"a", "b"}
    /\ schema.o["definitions"].o["a"] = O("ref", JStr("zz"))
    /\ schema.o["definitions"].o["b"] = Bad
    /\ RootFailure = Err(UnknownType("bogus"))
    /\ result = Err(RefNotFound("zz"))

\* definitions is not an object and nothing else is looked at
DefinitionsNotObjectReached ==
    /\ pc = "compiled"
    /\ schema = O("definitions", JArr(<<>>))
    /\ result = Err(DefinitionsNotObject)

\* only b and the root body are invalid: the error is that of b
SecondDefinitionFails ==
    /\ pc = "compiled"
    /\ IsObj(schema)
    /\ Has(schema.o, "definitions") /\ IsObj(schema.o["definitions"])
    /\ InvalidDefinitions = {"b"}
    /\ "a" \in DOMAIN schema.o["definitions"].o
    /\ ~RootFailure.ok
    /\ RootFailure # result

\* C29: for every writer state of depth at least one the depth after
\* close_open equals the depth before, and the continuation line is written
\* one level shallower than the bodies on either side; at depth zero the
\* decrement is clamped, the line is written at level zero and the depth
\* after the call is one.
CloseOpenKeepsDepth ==
    [][CloseOpen =>
          /\ Written = writer'.depth - 1
          /\ IF writer.depth >= 1
             THEN writer'.depth = writer.depth /\ Written = writer.depth - 1
             ELSE writer'.depth = 1 /\ Written = 0]_vars

\* an else between two bodies at depth two
CloseOpenKeepsDepthWitness ==
    /\ target = "lua"
    /\ writer = lua_line(lua_close_open(lua_line(lua_open(NewWriter, "a"), "b"), "a"), "b")
    /\ writer.depth = 1
    /\ writer.buf[3].indent = 0
    /\ writer.buf[2].indent = 1
    /\ writer.buf[4].indent = 1

\* close_open on a new writer
CloseOpenAtZero ==
    /\ target = "js"
    /\ writer = close_open(NewWriter, "a")
    /\ writer.depth = 1

(***************************************************************************)
(* Properties of compile                                                   *)
(***************************************************************************)
\* C2: form detection.  For a root object whose definitions are absent or
\* correct: two or more form keywords give MultipleForms whatever their
\* values are; exactly one form keyword with a well-formed value gives the
\* AST variant of that form (below the nullable wrapper); no form keyword
\* gives Empty.
FormDetection ==
    (Done /\ DefsValid) =>
        LET forms == FormsPresent(schema.o)
        IN  /\ Cardinality(forms) >= 2 =>
                  /\ ~result.ok
                  /\ result.err.e = "MultipleForms"
                  /\ {result.err.forms[i] : i \in 1..Len(result.err.forms)} = forms
            /\ (Cardinality(forms) = 1 /\ ValidForm(schema.o, RootDefKeys)) =>
                  /\ result.ok
                  /\ \A f \in forms : FormNode(result.root).kind = KindOf(f)
            /\ forms = {} => result.ok /\ FormNode(result.root) = Empty

\* two form keywords, both with ill-formed values, rejected as MultipleForms
FormDetectionWitness ==
    /\ Done
    /\ schema.t = "obj"
    /\ DOMAIN schema.o = {"ref", "type"}
    /\ schema.o["ref"] = Bad
    /\ schema.o["type"] = JStr("bogus")
    /\ result = Err(MultipleForms(<<"ref", "type">>))

\* a schema position the compiler reaches holds a definitions member
RECURSIVE HasDefinitionsBelow(_)
\* the sub-schemas of the object o
SubSchemas(o) ==
    UNION {IF k \in {"elements", "values"} THEN {o[k]}
           ELSE IF o[k].t = "obj" THEN {o[k].o[x] : x \in DOMAIN o[k].o} ELSE {} :
           k \in {"elements", "values", "properties", "optionalProperties", "mapping"}
                 \cap DOMAIN o}

HasDefinitionsBelow(json) ==
    /\ json.t = "obj"
    /\ \E sub \in SubSchemas(json.o) :
          /\ sub.t = "obj"
          /\ "definitions" \in DOMAIN sub.o \/ HasDefinitionsBelow(sub)

\* a definitions member in a schema object other than the root
NestedDefinitions ==
    /\ schema.t = "obj"
    /\ \/ HasDefinitionsBelow(schema)
       \/ \E k \in RootDefKeys :
             LET body == schema.o["definitions"].o[k]
             IN  /\ body.t = "obj"
                 /\ "definitions" \in DOMAIN body.o \/ HasDefinitionsBelow(body)

\* C3: compile fails with DefinitionsInNonRoot for every schema in which a
\* definitions key appears in a schema object other than the root.
NestedDefinitionsRejected ==
    (Done /\ NestedDefinitions) => result = Err(DefinitionsInNonRoot)

\* the names referenced from the schema positions of json
RECURSIVE JsonRefs(_)
JsonRefs(json) ==
    IF json.t # "obj" THEN {}
    ELSE (IF "ref" \in DOMAIN json.o /\ json.o["ref"].t = "str"
          THEN {json.o["ref"].s} ELSE {})
         \cup UNION {JsonRefs(sub) : sub \in SubSchemas(json.o)}

DocRefs ==
    JsonRefs(schema)
    \cup UNION {JsonRefs(schema.o["definitions"].o[k]) : k \in RootDefKeys}

RefsIn(n) == {x.name : x \in {y \in SubNodes(n) : y.kind = "Ref"}}

\* C4: a CompiledSchema is closed under references: the definitions map has
\* exactly the keys of the root definitions object and every Ref of the root
\* and of the definition bodies names one of them; RefNotFound carries a name
\* that is no such key, and a schema that is correct except for references
\* to undeclared names fails with RefNotFound of one of those names.
RefClosure ==
    Done =>
        /\ result.ok =>
              /\ DOMAIN result.definitions = RootDefKeys
              /\ \A n \in AllNodes(result) : n.kind = "Ref" => n.name \in RootDefKeys
        /\ (~result.ok /\ result.err.e = "RefNotFound") =>
              /\ result.err.name \notin RootDefKeys
              /\ result.err.name \in DocRefs
        /\ (schema.t = "obj" /\ ValidSchema(schema, TRUE, RootDefKeys \cup DocRefs)
              /\ DocRefs \ RootDefKeys # {}) =>
              /\ ~result.ok
              /\ result.err.e = "RefNotFound"
              /\ result.err.name \in DocRefs \ RootDefKeys

\* a compiled schema whose definition b holds a Ref, and root too
RefClosureWitness ==
    /\ Done
    /\ result.ok
    /\ RootDefKeys = {"a", "b"}
    /\ result.root.kind = "Values"
    /\ result.root.schema = Ref("b")
    /\ result.definitions["b"] = Elements(Ref("a"))

\* C5: two-pass resolution.  A correct schema compiles whatever the order of
\* its definitions and of the references between them, and every definition
\* entry holds the compiled body, never the placeholder.
TwoPassResolution ==
    (Done /\ ValidDoc) =>
        /\ result.ok
        /\ result.root = AstOf(schema)
        /\ result.definitions =
              [k \in RootDefKeys |-> AstOf(schema.o["definitions"].o[k])]

\* a references b (declared later), b references a back
TwoPassWitness ==
    /\ Done
    /\ result.ok
    /\ RootDefKeys = {"a", "b"}
    /\ result.definitions["a"] = Ref("b")
    /\ result.definitions["b"] = Elements(Ref("a"))

\* a references itself
SelfRefReached ==
    /\ Done
    /\ result.ok
    /\ "a" \in RootDefKeys
    /\ result.definitions["a"] = Elements(Ref("a"))

TaxonomyKinds ==
    {"NotAnObject", "DefinitionsNotObject", "DefinitionsInNonRoot", "MultipleForms",
     "RefNotString", "RefNotFound", "TypeNotString", "UnknownType", "InvalidEnum",
     "EnumDuplicates", "OverlappingProperties", "DiscriminatorNotString",
     "MissingMapping", "MappingNotProperties", "TagInVariant"}

\* C6: compile succeeds exactly for the correct schemas of RFC 8927
\* section 2 and fails with a kind of the error table otherwise.
CompileIffValid ==
    Done =>
        /\ result.ok <=> ValidDoc
        /\ ~result.ok => result.err.e \in TaxonomyKinds

\* the half of C6 that the compiler meets: correct schemas compile, and a
\* failure carries a kind of the error table
ValidCompiles ==
    Done =>
        /\ ValidDoc => result.ok
        /\ ~result.ok => result.err.e \in TaxonomyKinds

\* the first key of S in iteration order
FirstKey(S) == CHOOSE k \in S : \A x \in S : Rank(k) <= Rank(x)

\* the mapping entry v is no properties form, or is nullable
NotPropertiesForm(v) == FormsPresent(v.o) # {"properties"} \/ IsTrue(v.o, "nullable")

DeclaresTag(v, tag) == tag \in KeysOf(v.o, "properties") \cup KeysOf(v.o, "optionalProperties")

\* C7: every mapping value of a Discriminator is a Properties node without
\* the tag among its keys; compile rejects a discriminator whose mapping
\* entries are correct schemas at the first entry (in key order) that is not
\* a non-nullable properties form (MappingNotProperties) or that declares the
\* tag (TagInVariant).
MappingInvariant ==
    Done =>
        /\ result.ok =>
              \A n \in AllNodes(result) : n.kind = "Discriminator" =>
                  \A k \in DOMAIN n.mapping :
                      /\ n.mapping[k].kind = "Properties"
                      /\ n.tag \notin DOMAIN n.mapping[k].required
                      /\ n.tag \notin DOMAIN n.mapping[k].optional
        /\ (/\ schema.t = "obj"
            /\ DOMAIN schema.o = {"discriminator", "mapping"}
            /\ schema.o["discriminator"].t = "str"
            /\ schema.o["mapping"].t = "obj"
            /\ \A k \in DOMAIN schema.o["mapping"].o :
                  ValidSchema(schema.o["mapping"].o[k], FALSE, {})) =>
              LET m == schema.o["mapping"].o
                  tag == schema.o["discriminator"].s
                  bad == {k \in DOMAIN m : NotPropertiesForm(m[k]) \/ DeclaresTag(m[k], tag)}
              IN  bad # {} =>
                     result = IF NotPropertiesForm(m[FirstKey(bad)])
                              THEN Err(MappingNotProperties)
                              ELSE Err(TagInVariant(tag))

\* a nullable properties form as mapping entry, rejected
MappingWitness ==
    /\ Done
    /\ schema.t = "obj"
    /\ DOMAIN schema.o = {"discriminator", "mapping"}
    /\ schema.o["discriminator"] = JStr("p")
    /\ schema.o["mapping"].t = "obj"
    /\ DOMAIN schema.o["mapping"].o = {"m", "n"}
    /\ schema.o["mapping"].o["m"] = O("properties", O("q", EmptyObj))
    /\ schema.o["mapping"].o["n"] =
          With(O("properties", O("q", EmptyObj)), O("nullable", JBool(TRUE)))
    /\ result = Err(MappingNotProperties)

\* a variant declaring the tag, rejected
TagInVariantReached ==
    /\ Done
    /\ schema.t = "obj"
    /\ DOMAIN schema.o = {"discriminator", "mapping"}
    /\ result = Err(TagInVariant("p"))

\* a discriminator with two variants compiled
DiscriminatorCompiled ==
    /\ Done
    /\ result.ok
    /\ result.root.kind = "Discriminator"
    /\ DOMAIN result.root.mapping = {"m", "n"}

\* C8: the required and optional key sets of every Properties node are
\* disjoint; a schema whose properties and optionalProperties share a key
\* fails, and fails with OverlappingProperties of a shared key when its
\* property schemas are correct.
PropertiesDisjoint ==
    Done =>
        /\ result.ok =>
              \A n \in AllNodes(result) : n.kind = "Properties" =>
                  DOMAIN n.required \cap DOMAIN n.optional = {}
        /\ schema.t = "obj" =>
              LET shared == KeysOf(schema.o, "properties")
                              \cap KeysOf(schema.o, "optionalProperties")
              IN  shared # {} =>
                     /\ ~result.ok
                     /\ (\A k \in {"properties", "optionalProperties"} :
                            \A x \in KeysOf(schema.o, k) :
                                ValidSchema(schema.o[k].o[x], FALSE, {})) =>
                           /\ result.err.e = "OverlappingProperties"
                           /\ result.err.key \in shared

\* properties and optionalProperties share both p and q
PropertiesOverlapWitness ==
    /\ Done
    /\ schema.t = "obj"
    /\ KeysOf(schema.o, "properties") = {"p", "q"}
    /\ KeysOf(schema.o, "optionalProperties") = {"p", "q"}
    /\ result = Err(OverlappingProperties("p"))

\* a Properties node with required and optional keys compiled
PropertiesCompiled ==
    /\ Done
    /\ result.ok
    /\ result.root.kind = "Properties"
    /\ DOMAIN result.root.required = {"p"}
    /\ DOMAIN result.root.optional = {"q"}

\* the first index of arr that holds a non-string or repeats an earlier
\* element, 0 when there is none
FirstDefect(arr) ==
    LET defects == {i \in 1..Len(arr) :
                        arr[i].t # "str" \/ \E j \in 1..(i - 1) : arr[j] = arr[i]}
    IN  IF defects = {} THEN 0
        ELSE CHOOSE i \in defects : \A j \in defects : i <= j

\* the schema is an object whose only form keyword is enum
EnumDoc == schema.t = "obj" /\ FormsPresent(schema.o) = {"enum"} /\ DefsValid

\* C9: an enum schema compiles only when its value is a non-empty array of
\* pairwise distinct strings, and Enum.values is then that list in order; a
\* non-array, an empty array and a non-string element give InvalidEnum, a
\* repeated string gives EnumDuplicates (the first defect of the array
\* decides when it has both).
EnumCompile ==
    (Done /\ EnumDoc) =>
        LET v == schema.o["enum"]
        IN  /\ result.ok <=> (v.t = "arr" /\ Len(v.a) > 0 /\ DistinctStrings(v.a))
            /\ result.ok =>
                  FormNode(result.root) = Enum([i \in 1..Len(v.a) |-> v.a[i].s])
            /\ (v.t # "arr" \/ Len(v.a) = 0) => result = Err(InvalidEnum)
            /\ (v.t = "arr" /\ FirstDefect(v.a) > 0) =>
                  result = IF v.a[FirstDefect(v.a)].t # "str"
                           THEN Err(InvalidEnum)
                           ELSE Err(EnumDuplicates)

\* the order of the enum array is kept
EnumWitness ==
    /\ Done
    /\ EnumDoc
    /\ schema.o["enum"] = JArr(<<JStr("b"), JStr("a")>>)
    /\ result.ok
    /\ FormNode(result.root).values = <<"b", "a">>

\* a repeated string rejected
EnumDuplicatesReached ==
    /\ Done
    /\ EnumDoc
    /\ schema.o["enum"] = JArr(<<JStr("a"), JStr("b"), JStr("a")>>)
    /\ result = Err(EnumDuplicates)

\* node is what compile builds for json as far as the nullable wrapper goes:
\* wrapped exactly when nullable is the boolean true, the wrapped node being
\* the form node, and so for every sub-schema
RECURSIVE NullableAgrees(_, _)
NullableAgrees(json, node) ==
    LET o == json.o
        form == IF IsTrue(o, "nullable") THEN node.inner ELSE node
        forms == FormsPresent(o)
    IN  /\ (node.kind = "Nullable") <=> IsTrue(o, "nullable")
        /\ form.kind # "Nullable"
        /\ form.kind = IF forms = {} THEN "Empty" ELSE KindOf(CHOOSE f \in forms : TRUE)
        /\ form.kind = "Elements" => NullableAgrees(o["elements"], form.schema)
        /\ form.kind = "Values" => NullableAgrees(o["values"], form.schema)
        /\ form.kind = "Properties" =>
              /\ \A k \in DOMAIN form.required :
                    NullableAgrees(o["properties"].o[k], form.required[k])
              /\ \A k \in DOMAIN form.optional :
                    NullableAgrees(o["optionalProperties"].o[k], form.optional[k])
        /\ form.kind = "Discriminator" =>
              \A k \in DOMAIN form.mapping :
                  NullableAgrees(o["mapping"].o[k], form.mapping[k])

\* C10: the node compile builds for a schema object is wrapped in Nullable
\* if and only if the object has nullable set to the boolean true, and the
\* wrapped node is the object's form node (never a second wrapper).
NullableWrapper ==
    (Done /\ result.ok) =>
        /\ NullableAgrees(schema, result.root)
        /\ \A k \in DOMAIN result.definitions :
              NullableAgrees(schema.o["definitions"].o[k], result.definitions[k])

\* nullable at two levels: an elements form wrapped, its inner type wrapped
NullableWitness ==
    /\ Done
    /\ result.ok
    /\ result.root = Nullable(Elements(Nullable(Type("boolean"))))

\* nullable present but not the boolean true: no wrapper
NullableNotTrueReached ==
    /\ Done
    /\ result.ok
    /\ schema.t = "obj"
    /\ "nullable" \in DOMAIN schema.o
    /\ schema.o["nullable"] \in {JBool(FALSE), JStr("x")}
    /\ result.root.kind # "Nullable"
====
